---- MODULE Spec2Model ----
(***************************************************************************)
(* Verification model of the Kyber VPN backend.                            *)
(*                                                                         *)
(* Part 1 (specification Spec): VPNManager, app/network/vpn.py.  The       *)
(* manager runs inside one asyncio event loop.  A coroutine runs without   *)
(* interruption until it awaits something that is not finished; the only   *)
(* such await in VPNManager is `await self.status_task` in _cleanup, and   *)
(* the only one in the telemetry task is `await asyncio.sleep(1.0)`.  The  *)
(* loop's ready queue is FIFO (call_soon), so the model keeps it as the    *)
(* sequence `ready`; one action pops the head and runs it to its next      *)
(* suspension.                                                             *)
(*                                                                         *)
(* Part 2 (specification SpecChat): MessagingService,                      *)
(* app/chat/messaging.py, and the WebSocket endpoint of                    *)
(* app/api/routes/chat.py.  The service methods contain no await; the      *)
(* endpoint suspends in receive_text and in every send_text.               *)
(*                                                                         *)
(* Part 3 (specification SpecCrypto): KyberManager,                        *)
(* app/crypto/kyber.py, and AESGCMCipher, app/crypto/symmetric.py.  The    *)
(* primitives of the cryptography package (RSA-OAEP, AES-GCM, DER and      *)
(* base64 coding) are library code: they are modelled by their contracts,  *)
(* and os.urandom as a source whose values are never drawn twice.          *)
(***************************************************************************)
EXTENDS Integers, Sequences, FiniteSets, TLC

(***************************************************************************)
(* Bounds of the exploration.                                              *)
(***************************************************************************)
\* number of connect/disconnect requests issued in one behaviour
MaxCalls == 4
\* telemetry timers stop firing once bytes_sent reached this value
MaxBytes == 8192
\* the wall clock stops advancing here
MaxTime == 2
\* number of register calls that succeed
MaxRegistered == 1
\* number of sessions authenticate creates
MaxSessions == 2
\* number of private rooms create_secure_channel creates
MaxPrivateRooms == 1
\* number of WebSocket connections accepted
MaxSockets == 2
\* number of frames the clients send
MaxFrames == 1
\* number of values drawn from os.urandom by the crypto classes
MaxEntropy == 3
\* number of key pairs generate_keypair makes
MaxKeypairs == 2

(***************************************************************************)
(* Configuration: app/core/config.py.                                      *)
(***************************************************************************)
\* 10.8.0.0, the network address of the default VPN_SUBNET "10.8.0.0/24"
NetBase == 168296448
\* address counts of the subnets VPN_SUBNET is read as from the
\* environment: a /24 (the default) and a /31
\* the ids of the catalog VPN_SERVERS and the "latency" of each entry
VPN_SERVERS == {"server1", "server2", "server3"}
ServerLatency(s) == CASE s = "server1" -> 25
                      [] s = "server2" -> 35
                      [] s = "server3" -> 50
                      [] OTHER -> 0
\* server ids a client may send: the catalog and one id that is not in it

\* None for server / vpn_ip / aes / status_task
NoServer == "None"
NoIp == 0
NoKey == 0
NoTask == 0
\* values of os.urandom(32) in KyberManager.encapsulate
SharedKeys == {1, 2}
\* random.randint(1024, 8192): the two ends of the range
TrafficIncrements == {1024, 8192}
\* exceptions the try block of connect can see: none, generate_keypair
\* raising RuntimeError, encapsulate raising RuntimeError
Faults == {"none", "keypair", "encapsulate"}

VARIABLES
    vpnSubnetSize,   \* settings.VPN_SUBNET, as its number of addresses
    kyber_keypair,   \* self.kyber._keypair is not None
    aes,             \* self.aes: NoKey or the key of the AESGCMCipher
    tun,             \* self.tun is not None
    connected, server, connection_time, vpn_ip,
    bytes_sent, bytes_received, latency,
    status_task,     \* self.status_task: NoTask or a task id
    tasks,           \* the asyncio tasks ever created, by id
    waiters,         \* per task, the suspended callers awaiting it, in order
    ready,           \* the event loop's ready queue
    calls,           \* number of requests issued so far
    ret,             \* the result of the call that returned last
    now              \* time.time()

vpnVars == <<vpnSubnetSize, kyber_keypair, aes, tun, connected, server,
             connection_time, vpn_ip, bytes_sent, bytes_received, latency,
             status_task, tasks, waiters, ready, calls, ret, now>>

\* the fields of the manager a connection consists of
connVars == <<aes, tun, connected, server, connection_time, vpn_ip,
              bytes_sent, bytes_received, latency, status_task, tasks>>

VARIABLES
    users_db,            \* MessagingService._users_db: username -> user data
    connected_users,     \* username -> User (is_online, vpn_ip)
    user_sessions,       \* session_id -> username, in insertion order; the
                         \* session id is the position
    vpn_sessions,        \* vpn_ip -> username
    chat_rooms,          \* room_id -> ChatRoom, in insertion order
    active_connections,  \* chat.py: session_id -> WebSocket
    sockets,             \* the WebSocket connections ever accepted
    uuids,               \* number of uuid4 values drawn for message ids
    frames,              \* number of frames the clients sent
    chatRet,             \* the result of the service call that returned last
    issued               \* the tokens the clients were issued, by session id

chatVars == <<users_db, connected_users, user_sessions, vpn_sessions,
              chat_rooms, active_connections, sockets, uuids, frames,
              chatRet, issued>>

VARIABLES
    keypair,     \* KyberManager._keypair: 0 for None, or the number of the pair
    pairs,       \* number of RSA key pairs generated so far
    entropy,     \* number of values drawn from os.urandom so far
    ciphers,     \* the AESGCMCipher objects constructed: the key of each
    sealed,      \* the encrypt calls made: cipher, arguments and result
    cryptoRet    \* the result of the crypto call that returned last

cryptoVars == <<keypair, pairs, entropy, ciphers, sealed, cryptoRet>>

vars == <<vpnVars, chatVars, cryptoVars>>

(***************************************************************************)
(* Pure helpers.                                                           *)
(***************************************************************************)
\* ipaddress: ip in IPv4Network(VPN_SUBNET)
InSubnet(ip) == NetBase <= ip /\ ip < NetBase + vpnSubnetSize

\* mutant: the address is computed without the range check of __getitem__
SubnetHasIndex_Unchecked(n) == TRUE

\* IPv4Network.__getitem__(n): IndexError when n is out of range
SubnetHasIndex(n) == n < vpnSubnetSize
SubnetIndex(n) == NetBase + n

\* mutant: an unknown id falls back to the first server of the catalog
FindServer_Default(server_id) ==
    IF server_id \in VPN_SERVERS THEN server_id ELSE "server1"

\* the for loop of connect over settings.VPN_SERVERS
FindServer(server_id) ==
    IF server_id \in VPN_SERVERS THEN server_id ELSE NoServer

\* VPNManager.get_status
get_status ==
    IF ~connected
    THEN [connected |-> FALSE, uptime |-> 0, bytesReceived |-> 0,
          bytesSent |-> 0, latency |-> 0, vpnIp |-> NoIp,
          server_id |-> NoServer]
    ELSE [connected |-> TRUE, uptime |-> now - connection_time,
          bytesReceived |-> bytes_received, bytesSent |-> bytes_sent,
          latency |-> latency, vpnIp |-> vpn_ip, server_id |-> server]

Entry(kind, id, arg) == [kind |-> kind, id |-> id, arg |-> arg]
\* the dictionary a call returns; error is the exception named in its message
Result(id, op, success, kind, ip, error) ==
    [id |-> id, op |-> op, success |-> success, kind |-> kind, vpnIp |-> ip,
     error |-> error]

\* a task is live from create_task until its coroutine has finished: "done"
\* when it returned from the loop or was cancelled, "failed" when it returned
\* from the handler of an exception
Live(t) == tasks[t].st \notin {"done", "failed"}
LiveTasks == {t \in 1..Len(tasks) : Live(t)}

\* the attributes of the manager that connect and _cleanup assign
Fields ==
    [aes |-> aes, tun |-> tun, connected |-> connected, server |-> server,
     connection_time |-> connection_time, vpn_ip |-> vpn_ip,
     bytes_sent |-> bytes_sent, bytes_received |-> bytes_received,
     latency |-> latency, status_task |-> status_task]

Store(f) ==
    /\ aes' = f.aes
    /\ tun' = f.tun
    /\ connected' = f.connected
    /\ server' = f.server
    /\ connection_time' = f.connection_time
    /\ vpn_ip' = f.vpn_ip
    /\ bytes_sent' = f.bytes_sent
    /\ bytes_received' = f.bytes_received
    /\ latency' = f.latency
    /\ status_task' = f.status_task

(***************************************************************************)
(* Task.cancel(): a task suspended in sleep is woken with CancelledError   *)
(* (its step is queued); a task whose step is already queued gets          *)
(* _must_cancel; a finished task is left alone.                            *)
(***************************************************************************)
\* mutant: cancel() that marks the task and leaves it asleep
CancelTask_MarksOnly(t) ==
    /\ tasks' = [tasks EXCEPT ![t] =
                    IF @.st \in {"done", "failed"} THEN @
                    ELSE [st |-> @.st, cancel |-> TRUE]]
    /\ ready' = Tail(ready)

CancelTask(t) ==
    /\ tasks' = [tasks EXCEPT ![t] =
                    IF @.st \in {"done", "failed"} THEN @
                    ELSE [st |-> IF @.st = "sleep" THEN "wake" ELSE @.st,
                          cancel |-> TRUE]]
    /\ ready' = IF tasks[t].st = "sleep"
                THEN Append(Tail(ready), Entry("task", t, ""))
                ELSE Tail(ready)

\* mutant: _cleanup without its last line, self.aes = None
ResetFields_KeepsCipher(f) ==
    [f EXCEPT !.status_task = NoTask, !.tun = FALSE, !.connected = FALSE,
              !.server = NoServer, !.connection_time = 0, !.vpn_ip = NoIp,
              !.bytes_sent = 0, !.bytes_received = 0, !.latency = 0]

\* mutant: _cleanup without self.bytes_received = 0
ResetFields_KeepsReceived(f) ==
    [f EXCEPT !.status_task = NoTask, !.tun = FALSE, !.connected = FALSE,
              !.server = NoServer, !.connection_time = 0, !.vpn_ip = NoIp,
              !.bytes_sent = 0, !.latency = 0, !.aes = NoKey]

\* _cleanup, lines 165-184: everything after the join of the status task,
\* applied to the attribute values f
ResetFields(f) ==
    [f EXCEPT !.status_task = NoTask, !.tun = FALSE, !.connected = FALSE,
              !.server = NoServer, !.connection_time = 0, !.vpn_ip = NoIp,
              !.bytes_sent = 0, !.bytes_received = 0, !.latency = 0,
              !.aes = NoKey]

(***************************************************************************)
(* _cleanup called by handler h (the head of the ready queue) with the     *)
(* attributes at f; res is what h returns when _cleanup is over.  With a   *)
(* status task that has not finished, the caller cancels it and suspends   *)
(* in `await self.status_task`; otherwise _cleanup runs to its end in this *)
(* step.                                                                   *)
(***************************************************************************)
Cleanup(h, f, res) ==
    IF f.status_task # NoTask /\ Live(f.status_task)
    THEN /\ CancelTask(f.status_task)
         /\ waiters' = [waiters EXCEPT ![f.status_task] =
                           Append(@, Entry("resume", h, res.kind))]
         /\ Store(f)
         /\ UNCHANGED ret
    ELSE /\ Store(ResetFields(f))
         /\ ready' = Tail(ready)
         /\ ret' = res
         /\ UNCHANGED <<tasks, waiters>>

(***************************************************************************)
(* Requests.  A request handler's first step enters the ready queue at an  *)
(* arbitrary moment.                                                       *)
(***************************************************************************)
ConnectRequest ==
    /\ UNCHANGED <<chatVars, cryptoVars>>
    /\ calls < MaxCalls
    /\ \E sid \in VPN_SERVERS \cup {"server9"} :
          ready' = Append(ready, Entry("connect", calls + 1, sid))
    /\ calls' = calls + 1
    /\ UNCHANGED <<vpnSubnetSize, kyber_keypair, connVars, waiters, ret, now>>

DisconnectRequest ==
    /\ UNCHANGED <<chatVars, cryptoVars>>
    /\ calls < MaxCalls
    /\ ready' = Append(ready, Entry("disconnect", calls + 1, ""))
    /\ calls' = calls + 1
    /\ UNCHANGED <<vpnSubnetSize, kyber_keypair, connVars, waiters, ret, now>>

(***************************************************************************)
(* VPNManager.connect, run from its call to its return or suspension.      *)
(***************************************************************************)
\* lines 62-64
ConnectConflict(h) ==
    /\ ret' = Result(h, "connect", FALSE, "conflict", NoIp, "none")
    /\ ready' = Tail(ready)
    /\ UNCHANGED <<kyber_keypair, connVars, waiters>>

\* lines 73-75
ConnectNotFound(h) ==
    /\ ret' = Result(h, "connect", FALSE, "notfound", NoIp, "none")
    /\ ready' = Tail(ready)
    /\ UNCHANGED <<kyber_keypair, connVars, waiters>>

\* the exception the try block ends with, "none" when it reaches its return
TryRaises(fault) ==
    IF fault # "none" THEN fault
    ELSE IF ~SubnetHasIndex(2) THEN "IndexError"
    ELSE "none"

\* the attributes when the try block, started at f for server s with shared
\* key k, raises or reaches its return
TryBlock(f, s, k, fault) ==
    IF fault \in {"keypair", "encapsulate"} THEN f
    ELSE IF ~SubnetHasIndex(2) THEN [f EXCEPT !.aes = k, !.tun = TRUE]
    ELSE [f EXCEPT !.aes = k, !.tun = TRUE, !.vpn_ip = SubnetIndex(2),
                   !.server = s, !.connected = TRUE,
                   !.connection_time = now, !.bytes_sent = 0,
                   !.bytes_received = 0, !.latency = ServerLatency(s),
                   !.status_task = Len(tasks) + 1]

\* lines 80-126: the try block ran to its return statement
ConnectEstablish(h, s, k) ==
    /\ kyber_keypair' = TRUE
    /\ Store(TryBlock(Fields, s, k, "none"))
    /\ tasks' = Append(tasks, [st |-> "new", cancel |-> FALSE])
    /\ waiters' = Append(waiters, <<>>)
    /\ ready' = Append(Tail(ready), Entry("task", Len(tasks) + 1, ""))
    /\ ret' = Result(h, "connect", TRUE, "established", SubnetIndex(2), "none")

\* lines 128-135: the try block raised
ConnectFail(h, s, k, fault) ==
    /\ kyber_keypair' = (kyber_keypair \/ fault # "keypair")
    /\ Cleanup(h, TryBlock(Fields, s, k, fault),
               Result(h, "connect", FALSE, "error", NoIp, TryRaises(fault)))

\* mutant: connect without the check of self.connected
connect_Reconnects(h, server_id) ==
    IF FindServer(server_id) = NoServer THEN ConnectNotFound(h)
    ELSE \E fault \in Faults, k \in SharedKeys :
            IF TryRaises(fault) # "none"
            THEN ConnectFail(h, FindServer(server_id), k, fault)
            ELSE ConnectEstablish(h, FindServer(server_id), k)

connect(h, server_id) ==
    IF connected THEN ConnectConflict(h)
    ELSE IF FindServer(server_id) = NoServer THEN ConnectNotFound(h)
    ELSE \E fault \in Faults, k \in SharedKeys :
            IF TryRaises(fault) # "none"
            THEN ConnectFail(h, FindServer(server_id), k, fault)
            ELSE ConnectEstablish(h, FindServer(server_id), k)

StepConnect ==
    /\ UNCHANGED <<chatVars, cryptoVars>>
    /\ ready # <<>>
    /\ Head(ready).kind = "connect"
    /\ connect(Head(ready).id, Head(ready).arg)
    /\ UNCHANGED <<vpnSubnetSize, calls, now>>

(***************************************************************************)
(* VPNManager.disconnect up to its return or its suspension in _cleanup.   *)
(***************************************************************************)
\* mutant: disconnect as strict as connect
DisconnectNoop_Strict(h) ==
    /\ ret' = Result(h, "disconnect", FALSE, "conflict", NoIp, "none")
    /\ ready' = Tail(ready)
    /\ UNCHANGED <<connVars, waiters>>

\* lines 144-145
DisconnectNoop(h) ==
    /\ ret' = Result(h, "disconnect", TRUE, "noop", NoIp, "none")
    /\ ready' = Tail(ready)
    /\ UNCHANGED <<connVars, waiters>>

disconnect(h) ==
    IF ~connected THEN DisconnectNoop(h)
    ELSE Cleanup(h, Fields,
                 Result(h, "disconnect", TRUE, "disconnected", NoIp, "none"))

StepDisconnect ==
    /\ UNCHANGED <<chatVars, cryptoVars>>
    /\ ready # <<>>
    /\ Head(ready).kind = "disconnect"
    /\ disconnect(Head(ready).id)
    /\ UNCHANGED <<vpnSubnetSize, kyber_keypair, calls, now>>

(***************************************************************************)
(* A caller suspended in `await self.status_task` resumes: the rest of     *)
(* _cleanup, then the return of connect (arg "error") or disconnect.       *)
(***************************************************************************)
StepResume ==
    /\ UNCHANGED <<chatVars, cryptoVars>>
    /\ ready # <<>>
    /\ Head(ready).kind = "resume"
    /\ Store(ResetFields(Fields))
    /\ ready' = Tail(ready)
    /\ ret' = IF Head(ready).arg = "error"
              THEN Result(Head(ready).id, "connect", FALSE, "error", NoIp,
                          "raised")
              ELSE Result(Head(ready).id, "disconnect", TRUE, "disconnected",
                          NoIp, "none")
    /\ UNCHANGED <<vpnSubnetSize, kyber_keypair, tasks, waiters, calls, now>>

(***************************************************************************)
(* _update_status_task.                                                    *)
(***************************************************************************)
\* the coroutine finishes: its awaiters are scheduled in registration order
TaskFinish(t) ==
    /\ tasks' = [tasks EXCEPT ![t] = [st |-> "done", cancel |-> FALSE]]
    /\ ready' = Tail(ready) \o waiters[t]
    /\ waiters' = [waiters EXCEPT ![t] = <<>>]
    /\ UNCHANGED <<latency, bytes_sent, bytes_received>>

\* lines 241-243: an exception in the loop body is logged and the coroutine
\* returns; its awaiters are scheduled as for any finished task
TaskRaise(t) ==
    /\ tasks' = [tasks EXCEPT ![t] = [st |-> "failed", cancel |-> FALSE]]
    /\ ready' = Tail(ready) \o waiters[t]
    /\ waiters' = [waiters EXCEPT ![t] = <<>>]
    /\ UNCHANGED <<latency, bytes_sent, bytes_received>>

\* random.randint(max(1, base - 10), base + 10): the two ends of the range
LatencySamples(base) ==
    {IF base - 10 < 1 THEN 1 ELSE base - 10, base + 10}

\* mutant: the latency walks from its last value instead of the baseline
TaskTick_Walks(t) ==
    /\ \E l \in LatencySamples(latency) : latency' = l
    /\ \E inc \in TrafficIncrements :
          /\ bytes_sent' = bytes_sent + inc
          /\ bytes_received' = bytes_received + inc * 2
    /\ tasks' = [tasks EXCEPT ![t] = [st |-> "sleep", cancel |-> FALSE]]
    /\ ready' = Tail(ready)
    /\ UNCHANGED waiters

\* mutant: both counters grow by the same increment
TaskTick_Mirrors(t) ==
    /\ \E l \in LatencySamples(ServerLatency(server)) : latency' = l
    /\ \E inc \in TrafficIncrements :
          /\ bytes_sent' = bytes_sent + inc
          /\ bytes_received' = bytes_received + inc
    /\ tasks' = [tasks EXCEPT ![t] = [st |-> "sleep", cancel |-> FALSE]]
    /\ ready' = Tail(ready)
    /\ UNCHANGED waiters

\* one iteration of the while loop, up to the sleep
TaskTick(t) ==
    /\ \E l \in LatencySamples(ServerLatency(server)) : latency' = l
    /\ \E inc \in TrafficIncrements :
          /\ bytes_sent' = bytes_sent + inc
          /\ bytes_received' = bytes_received + inc * 2
    /\ tasks' = [tasks EXCEPT ![t] = [st |-> "sleep", cancel |-> FALSE]]
    /\ ready' = Tail(ready)
    /\ UNCHANGED waiters

\* one step of the coroutine: a pass of the loop ends with the sleep or
\* with an exception that is not CancelledError
update_status_task(t) ==
    IF tasks[t].cancel THEN TaskFinish(t)
    ELSE IF ~connected THEN TaskFinish(t)
    ELSE IF server = NoServer THEN TaskRaise(t)
    ELSE \E fault \in {"none", "Exception"} :
            IF fault = "none" THEN TaskTick(t) ELSE TaskRaise(t)

StepTask ==
    /\ UNCHANGED <<chatVars, cryptoVars>>
    /\ ready # <<>>
    /\ Head(ready).kind = "task"
    /\ update_status_task(Head(ready).id)
    /\ UNCHANGED <<vpnSubnetSize, kyber_keypair, aes, tun, connected, server,
                   connection_time, vpn_ip, status_task, calls, ret, now>>

\* asyncio.sleep(1.0) is over: the task's next step is queued
TimerFire ==
    /\ UNCHANGED <<chatVars, cryptoVars>>
    /\ bytes_sent < MaxBytes
    /\ \E t \in 1..Len(tasks) :
          /\ tasks[t].st = "sleep"
          /\ tasks' = [tasks EXCEPT ![t].st = "wake"]
          /\ ready' = Append(ready, Entry("task", t, ""))
    /\ UNCHANGED <<vpnSubnetSize, kyber_keypair, aes, tun, connected, server,
                   connection_time, vpn_ip, bytes_sent, bytes_received,
                   latency, status_task, waiters, calls, ret, now>>

\* time.time() advances
ClockTick ==
    /\ UNCHANGED <<chatVars, cryptoVars>>
    /\ now < MaxTime
    /\ now' = now + 1
    /\ UNCHANGED <<vpnSubnetSize, kyber_keypair, connVars, waiters, ready,
                   calls, ret>>

(***************************************************************************)
(* Part 2.  MessagingService and the chat routes.                          *)
(***************************************************************************)
\* the users __init__ puts into _users_db, in insertion order
DemoUsers == <<"usuario1", "usuario2">>
DemoPassword(u) == IF u = "usuario1" THEN "password1" ELSE "password2"
\* usernames the clients register: a new name and the empty string
NewNames == {"ana", ""}
\* usernames the clients name in calls: the above and one never registered
Usernames == {"usuario1", "usuario2", "ghost"} \cup NewNames
Passwords == {"password1", "password2"}
\* passwords the clients register with
NewPasswords == {"password1"}
\* what dict.get returns for a missing key
NoUser == "<None>"
\* Python truth value of a username: None and "" are false
Truthy(username) == username # NoUser /\ username # ""

\* addresses the clients claim: 10.8.0.1, 10.8.0.5, 8.8.8.8 and a string
\* ipaddress.ip_address rejects
BadIp == -1
ClaimedIps == {NetBase + 1, NetBase + 5, 134744072, BadIp}

\* room ids: "general" and f"private_{user1}_{user2}_{uuid}"
GeneralId == [kind |-> "general", a |-> "", b |-> "", n |-> 0]
PrivateId(user1, user2, n) ==
    [kind |-> "private", a |-> user1, b |-> user2, n |-> n]
\* a room id no room has
UnknownRoomId == [kind |-> "unknown", a |-> "", b |-> "", n |-> 0]

\* passlib bcrypt: the hash binds the salt and the password, and verify
\* recomputes it from the salt stored in the hash
get_password_hash(password, salt) ==
    [salt |-> salt, digest |-> <<"bcrypt", salt, password>>]
\* what the field would hold if the password were stored as it is
Plain(password) == [salt |-> 0, digest |-> <<"plain", password>>]
\* mutant: only the scheme and the salt of the hash are compared
verify_password_AnyPassword(plain_password, hashed_password) ==
    /\ hashed_password.digest[1] = "bcrypt"
    /\ hashed_password.digest[2] = hashed_password.salt

verify_password(plain_password, hashed_password) ==
    hashed_password.digest = <<"bcrypt", hashed_password.salt, plain_password>>

\* dict assignment and deletion
Put(f, k, v) == [x \in DOMAIN f \cup {k} |-> IF x = k THEN v ELSE f[x]]
Del(f, k) == [x \in DOMAIN f \ {k} |-> f[x]]
\* x in list
InList(x, list) == \E i \in 1..Len(list) : list[i] = x

\* None for a message, and the dictionaries of create_message and of the
\* typing notification
NoMessage ==
    [kind |-> "none", id |-> 0, sender |-> NoUser, room_id |-> UnknownRoomId,
     read_by |-> <<>>]
Message(id, sender, room_id) ==
    [kind |-> "message", id |-> id, sender |-> sender, room_id |-> room_id,
     read_by |-> <<sender>>]
Typing(room_id, username) ==
    [kind |-> "typing", id |-> 0, sender |-> username, room_id |-> room_id,
     read_by |-> <<>>]
\* a frame handed to send_text
Frame(type, message) == [type |-> type, message |-> message]

(***************************************************************************)
(* security.py: JWT tokens.  A token is its payload and the HS256          *)
(* signature, which binds the key and the payload.                         *)
(***************************************************************************)
SECRET_KEY == "SECRET_KEY"
\* settings.ACCESS_TOKEN_EXPIRE_MINUTES (8 days), in ticks of the clock: a
\* tick is longer than the lifetime of a token
TokenLifetime == 0
\* None for a payload and for a token
NoPayload == [sub |-> NoUser, session_id |-> 0, vpn_ip |-> 0, exp |-> 0]
Sign(key, payload) == <<"HS256", key, payload>>
NoToken == [payload |-> NoPayload, sig |-> <<>>]
\* a string that is not a JWT
Malformed == [payload |-> NoPayload, sig |-> <<"invalid.token.here">>]

\* to_encode = data.copy(); to_encode.update({"exp": expire})
create_access_token(data) ==
    LET to_encode == [f \in DOMAIN data \cup {"exp"} |->
                         IF f = "exp" THEN now + TokenLifetime ELSE data[f]]
    IN [payload |-> to_encode, sig |-> Sign(SECRET_KEY, to_encode)]

\* mutant: jwt.decode without the check of exp
verify_token_IgnoresExp(token) ==
    IF token = Malformed THEN NoPayload
    ELSE IF token.sig # Sign(SECRET_KEY, token.payload) THEN NoPayload
    ELSE token.payload

\* jwt.decode raises for a string that is not a JWT, for a signature that
\* is not the one of the payload under SECRET_KEY and for an exp in the
\* past; every exception gives None
verify_token(token) ==
    IF token = Malformed THEN NoPayload
    ELSE IF token.sig # Sign(SECRET_KEY, token.payload) THEN NoPayload
    ELSE IF token.payload.exp < now THEN NoPayload
    ELSE token.payload

ChatResult(op, success, kind, message, token) ==
    [op |-> op, success |-> success, kind |-> kind, message |-> message,
     token |-> token, given |-> <<>>, payload |-> NoPayload]
\* the result r of authenticate_user, with what the call was given: whether
\* the username was a registered one and whether the password was the one
\* that user registered with
Given(r, username, password) ==
    [r EXCEPT !.given =
        <<username \in DOMAIN users_db,
          /\ username \in DOMAIN users_db
          /\ verify_password(password, users_db[username].hashed_password)>>]

\* position of room_id in chat_rooms, 0 when room_id not in chat_rooms
RoomIndex(room_id) ==
    IF \E i \in 1..Len(chat_rooms) : chat_rooms[i].id = room_id
    THEN CHOOSE i \in 1..Len(chat_rooms) : chat_rooms[i].id = room_id
    ELSE 0
\* room ids a client may send
RoomIds == {chat_rooms[i].id : i \in 1..Len(chat_rooms)} \cup {UnknownRoomId}
\* session ids a client may send: the recorded ones and one that is not
SessionIds == 1..(Len(user_sessions) + 1)
\* user_sessions.get(session_id)
SessionUser(session_id) ==
    IF session_id \in 1..Len(user_sessions) THEN user_sessions[session_id]
    ELSE NoUser

(***************************************************************************)
(* MessagingService.register_user: its effect on the service and the       *)
(* dictionary it returns.                                                  *)
(***************************************************************************)
\* mutant: register_user without the test of line 79
register_user_Overwrites(username, password) ==
    /\ users_db' = Put(users_db, username,
                       [display_name |-> "another name",
                        hashed_password |-> get_password_hash(password, 2)])
    /\ chat_rooms' =
          IF RoomIndex(GeneralId) # 0
             /\ ~InList(username,
                        chat_rooms[RoomIndex(GeneralId)].participants)
          THEN [chat_rooms EXCEPT
                   ![RoomIndex(GeneralId)].participants = Append(@, username)]
          ELSE chat_rooms

\* mutant: register_user without lines 92-96
register_user_SkipsRoom(username, password) ==
    IF username \in DOMAIN users_db
    THEN UNCHANGED <<users_db, chat_rooms>>
    ELSE /\ users_db' = Put(users_db, username,
                            [display_name |-> username,
                             hashed_password |->
                                 get_password_hash(password, 1)])
         /\ UNCHANGED chat_rooms

\* mutant: the new user becomes the only participant of "general"
register_user_Rebuilds(username, password) ==
    IF username \in DOMAIN users_db
    THEN UNCHANGED <<users_db, chat_rooms>>
    ELSE /\ users_db' = Put(users_db, username,
                            [display_name |-> username,
                             hashed_password |->
                                 get_password_hash(password, 1)])
         /\ chat_rooms' =
               IF RoomIndex(GeneralId) # 0
               THEN [chat_rooms EXCEPT
                        ![RoomIndex(GeneralId)].participants = <<username>>]
               ELSE chat_rooms

register_user(username, password) ==
    IF username \in DOMAIN users_db
    THEN UNCHANGED <<users_db, chat_rooms>>
    ELSE /\ users_db' = Put(users_db, username,
                            [display_name |-> username,
                             hashed_password |->
                                 get_password_hash(password, 1)])
         /\ chat_rooms' =
               IF RoomIndex(GeneralId) # 0
                  /\ ~InList(username,
                             chat_rooms[RoomIndex(GeneralId)].participants)
               THEN [chat_rooms EXCEPT
                        ![RoomIndex(GeneralId)].participants =
                            Append(@, username)]
               ELSE chat_rooms

register_result(username) ==
    IF username \in DOMAIN users_db
    THEN ChatResult("register", FALSE, "duplicate", NoMessage, NoToken)
    ELSE ChatResult("register", TRUE, "registered", NoMessage, NoToken)

\* a call that registers a new user is within the bound
WithinRegistered(username) ==
    \/ username \in DOMAIN users_db
    \/ Cardinality(DOMAIN users_db) < Len(DemoUsers) + MaxRegistered

Register ==
    /\ \E username \in Usernames, password \in NewPasswords :
          /\ WithinRegistered(username)
          /\ register_user(username, password)
          /\ chatRet' = register_result(username)
    /\ UNCHANGED <<connected_users, user_sessions, vpn_sessions,
                   active_connections, sockets, uuids, frames>>
    /\ UNCHANGED issued
    /\ UNCHANGED <<vpnVars, cryptoVars>>

\* register_user for the demo users and the new names
SignUp ==
    /\ \E username \in {DemoUsers[i] : i \in 1..Len(DemoUsers)} \cup NewNames,
          password \in NewPasswords :
          /\ register_user(username, password)
          /\ chatRet' = register_result(username)
    /\ UNCHANGED <<connected_users, user_sessions, vpn_sessions,
                   active_connections, sockets, uuids, frames>>
    /\ UNCHANGED issued
    /\ UNCHANGED <<vpnVars, cryptoVars>>

(***************************************************************************)
(* MessagingService.authenticate_user                                      *)
(***************************************************************************)
\* mutant: the username is looked up before the address is checked
authenticate_outcome_UserFirst(username, password, claimed_ip) ==
    IF username \notin DOMAIN users_db THEN "notfound"
    ELSE IF claimed_ip = BadIp THEN "invalid_ip"
    ELSE IF ~InSubnet(claimed_ip) THEN "off_vpn"
    ELSE IF ~verify_password(password, users_db[username].hashed_password)
         THEN "credentials"
    ELSE "authenticated"

\* lines 113-134: the checks, in their order
authenticate_outcome(username, password, claimed_ip) ==
    IF claimed_ip = BadIp THEN "invalid_ip"
    ELSE IF ~InSubnet(claimed_ip) THEN "off_vpn"
    ELSE IF username \notin DOMAIN users_db THEN "notfound"
    ELSE IF ~verify_password(password, users_db[username].hashed_password)
         THEN "credentials"
    ELSE "authenticated"

\* mutant: the token names the session before the new one
token_data_StaleSession(username, claimed_ip) ==
    [sub |-> username, session_id |-> Len(user_sessions),
     vpn_ip |-> claimed_ip]

\* lines 137-142: the session id is a fresh uuid4, here the next position
\* of user_sessions
token_data(username, claimed_ip) ==
    [sub |-> username, session_id |-> Len(user_sessions) + 1,
     vpn_ip |-> claimed_ip]

\* mutant: the address is bound to the username before the checks
authenticate_user_BindsFirst(username, password, claimed_ip) ==
    IF authenticate_outcome(username, password, claimed_ip) # "authenticated"
    THEN /\ vpn_sessions' = Put(vpn_sessions, claimed_ip, username)
         /\ UNCHANGED <<user_sessions, connected_users, issued>>
    ELSE /\ Len(user_sessions) < MaxSessions
         /\ issued' = Append(issued,
                             create_access_token(
                                 token_data(username, claimed_ip)))
         /\ user_sessions' = Append(user_sessions, username)
         /\ vpn_sessions' = Put(vpn_sessions, claimed_ip, username)
         /\ connected_users' = Put(connected_users, username,
                                   [is_online |-> TRUE, vpn_ip |-> claimed_ip])

\* mutant: an address keeps the first username it was bound to, and a user
\* the first address
authenticate_user_FirstWins(username, password, claimed_ip) ==
    IF authenticate_outcome(username, password, claimed_ip) # "authenticated"
    THEN UNCHANGED <<user_sessions, vpn_sessions, connected_users, issued>>
    ELSE /\ Len(user_sessions) < MaxSessions
         /\ issued' = Append(issued,
                             create_access_token(
                                 token_data(username, claimed_ip)))
         /\ user_sessions' = Append(user_sessions, username)
         /\ vpn_sessions' = IF claimed_ip \in DOMAIN vpn_sessions
                            THEN vpn_sessions
                            ELSE Put(vpn_sessions, claimed_ip, username)
         /\ connected_users' =
               IF username \in DOMAIN connected_users
               THEN [connected_users EXCEPT ![username].is_online = TRUE]
               ELSE Put(connected_users, username,
                        [is_online |-> TRUE, vpn_ip |-> claimed_ip])

\* lines 136-162: the session is stored
authenticate_user(username, password, claimed_ip) ==
    IF authenticate_outcome(username, password, claimed_ip) # "authenticated"
    THEN UNCHANGED <<user_sessions, vpn_sessions, connected_users, issued>>
    ELSE /\ Len(user_sessions) < MaxSessions
         /\ issued' = Append(issued,
                             create_access_token(
                                 token_data(username, claimed_ip)))
         /\ user_sessions' = Append(user_sessions, username)
         /\ vpn_sessions' = Put(vpn_sessions, claimed_ip, username)
         /\ connected_users' = Put(connected_users, username,
                                   [is_online |-> TRUE, vpn_ip |-> claimed_ip])

authenticate_result(username, password, claimed_ip) ==
    LET outcome == authenticate_outcome(username, password, claimed_ip) IN
    ChatResult("authenticate", outcome = "authenticated", outcome, NoMessage,
               IF outcome = "authenticated"
               THEN create_access_token(token_data(username, claimed_ip))
               ELSE NoToken)

Authenticate ==
    /\ \E username \in Usernames, password \in Passwords,
          claimed_ip \in ClaimedIps :
          /\ authenticate_user(username, password, claimed_ip)
          /\ chatRet' = Given(authenticate_result(username, password,
                                                  claimed_ip),
                              username, password)
    /\ UNCHANGED <<users_db, chat_rooms, active_connections, sockets, uuids,
                   frames>>
    /\ UNCHANGED <<vpnVars, cryptoVars>>

(***************************************************************************)
(* MessagingService.create_secure_channel.  uuid.uuid4() is taken as a     *)
(* value no earlier call drew: the uuid part of the room id is the number  *)
(* of rooms stored so far, which grows with every room.                    *)
(***************************************************************************)
\* lines 318-326: the ChatRoom of user1 and user2, created_at at its default
\* datetime.now(), is assigned to rooms[room_id]; a dict keeps the position
\* of a key it already has and appends a new one
SetRoom(rooms, room_id, user1, user2) ==
    LET room == [id |-> room_id, participants |-> <<user1, user2>>,
                 is_group |-> FALSE, created_at |-> now] IN
    IF \E i \in 1..Len(rooms) : rooms[i].id = room_id
    THEN [i \in 1..Len(rooms) |->
             IF rooms[i].id = room_id THEN room ELSE rooms[i]]
    ELSE Append(rooms, room)

\* a call that stores one more room is within the bound
WithinRooms(room_id) ==
    \/ RoomIndex(room_id) # 0
    \/ Len(chat_rooms) < 1 + MaxPrivateRooms

\* mutant: create_secure_channel without the check of line 301
create_secure_channel_NoCheck(user1, user2) ==
    LET room_id == PrivateId(user1, user2, Len(chat_rooms)) IN
    /\ WithinRooms(room_id)
    /\ chat_rooms' = SetRoom(chat_rooms, room_id, user1, user2)

\* mutant: the room id of line 305 without its uuid part
create_secure_channel_NoUuid(user1, user2) ==
    IF user1 \notin DOMAIN users_db \/ user2 \notin DOMAIN users_db
    THEN UNCHANGED chat_rooms
    ELSE LET room_id == PrivateId(user1, user2, 0) IN
         /\ WithinRooms(room_id)
         /\ chat_rooms' =
               SetRoom(chat_rooms, room_id, user1, user2)

create_secure_channel(user1, user2) ==
    IF user1 \notin DOMAIN users_db \/ user2 \notin DOMAIN users_db
    THEN UNCHANGED chat_rooms
    ELSE LET room_id == PrivateId(user1, user2, Len(chat_rooms)) IN
         /\ WithinRooms(room_id)
         /\ chat_rooms' =
               SetRoom(chat_rooms, room_id, user1, user2)

create_secure_channel_result(user1, user2) ==
    IF user1 \notin DOMAIN users_db \/ user2 \notin DOMAIN users_db
    THEN ChatResult("create_secure_channel", FALSE, "notfound", NoMessage,
                    NoToken)
    ELSE ChatResult("create_secure_channel", TRUE, "created", NoMessage,
                    NoToken)

\* one call of create_secure_channel
CreateSecureChannelCall(user1, user2) ==
    /\ create_secure_channel(user1, user2)
    /\ chatRet' = create_secure_channel_result(user1, user2)
    /\ UNCHANGED <<users_db, connected_users, user_sessions, vpn_sessions,
                   active_connections, sockets, uuids, frames>>
    /\ UNCHANGED issued
    /\ UNCHANGED <<vpnVars, cryptoVars>>

CreateSecureChannel ==
    \E user1 \in Usernames, user2 \in Usernames :
        CreateSecureChannelCall(user1, user2)

(***************************************************************************)
(* MessagingService.get_user_rooms: the list of dictionaries it returns.   *)
(***************************************************************************)
\* lines 193-199: the dictionary built for one room; created_at is the
\* text datetime.isoformat() gives for the time
RoomInfo(room) ==
    [id |-> room.id, is_group |-> room.is_group,
     participants |-> room.participants,
     created_at |-> <<"iso", room.created_at>>]

RECURSIVE RoomsOf(_, _)
\* the for loop of lines 191-199 over rooms, in the order of the dict
RoomsOf(username, rooms) ==
    IF rooms = <<>> THEN <<>>
    ELSE IF InList(username, Head(rooms).participants)
         THEN <<RoomInfo(Head(rooms))>> \o RoomsOf(username, Tail(rooms))
         ELSE RoomsOf(username, Tail(rooms))

\* mutant: get_user_rooms without the test of room.participants
get_user_rooms_AllRooms(username) ==
    IF username \notin DOMAIN users_db THEN <<>>
    ELSE [i \in 1..Len(chat_rooms) |-> RoomInfo(chat_rooms[i])]

get_user_rooms(username) ==
    IF username \notin DOMAIN users_db THEN <<>>
    ELSE RoomsOf(username, chat_rooms)

\* get_user_rooms called on the service; the result keeps the name asked for
GetRooms ==
    /\ \E username \in Usernames :
          chatRet' = [ChatResult("get_user_rooms", TRUE, "rooms", NoMessage,
                                 NoToken)
                         EXCEPT !.given = <<username,
                                            get_user_rooms(username)>>]
    /\ UNCHANGED <<users_db, connected_users, user_sessions, vpn_sessions,
                   chat_rooms, active_connections, sockets, uuids, frames,
                   issued>>
    /\ UNCHANGED <<vpnVars, cryptoVars>>

(***************************************************************************)
(* MessagingService.create_message: the message it returns, NoMessage for  *)
(* None.                                                                   *)
(***************************************************************************)
\* mutant: create_message without the check of room.participants
create_message_AnySession(session_id, room_id) ==
    LET username == SessionUser(session_id) IN
    IF ~Truthy(username) THEN NoMessage
    ELSE IF RoomIndex(room_id) = 0 THEN NoMessage
    ELSE Message(uuids + 1, username, room_id)

create_message(session_id, room_id) ==
    LET username == SessionUser(session_id) IN
    IF ~Truthy(username) THEN NoMessage
    ELSE IF RoomIndex(room_id) = 0 THEN NoMessage
    ELSE IF ~InList(username, chat_rooms[RoomIndex(room_id)].participants)
         THEN NoMessage
    ELSE Message(uuids + 1, username, room_id)

\* create_message called on the service
CreateMessage ==
    /\ frames < MaxFrames
    /\ \E session_id \in SessionIds, room_id \in RoomIds :
          LET message == create_message(session_id, room_id) IN
          /\ chatRet' = ChatResult("create_message", message # NoMessage,
                                   IF message # NoMessage THEN "created"
                                                          ELSE "rejected",
                                   message, NoToken)
          /\ uuids' = IF message # NoMessage THEN uuids + 1 ELSE uuids
    /\ frames' = frames + 1
    /\ UNCHANGED <<users_db, connected_users, user_sessions, vpn_sessions,
                   chat_rooms, active_connections, sockets>>
    /\ UNCHANGED issued
    /\ UNCHANGED <<vpnVars, cryptoVars>>

(***************************************************************************)
(* chat.py get_current_user: a client presents a token and verify_token    *)
(* is applied to it.  The clients present the tokens they were issued,     *)
(* those payloads signed with another key, those signatures with the       *)
(* payload changed to another user, and a string that is not a token.      *)
(***************************************************************************)
PresentedTokens ==
    {issued[k] : k \in 1..Len(issued)}
    \cup {[payload |-> issued[k].payload,
           sig |-> Sign("another key", issued[k].payload)] :
             k \in 1..Len(issued)}
    \cup {[payload |-> [issued[k].payload EXCEPT !.sub = "ghost"],
           sig |-> issued[k].sig] : k \in 1..Len(issued)}
    \cup {Malformed}

VerifyToken ==
    /\ \E token \in PresentedTokens :
          LET payload == verify_token(token) IN
          chatRet' = [ChatResult("verify_token", payload # NoPayload,
                                 IF payload # NoPayload THEN "valid"
                                                        ELSE "invalid",
                                 NoMessage, token)
                         EXCEPT !.payload = payload]
    /\ UNCHANGED <<users_db, connected_users, user_sessions, vpn_sessions,
                   chat_rooms, active_connections, sockets, uuids, frames,
                   issued>>
    /\ UNCHANGED <<vpnVars, cryptoVars>>

(***************************************************************************)
(* chat.py: the WebSocket endpoint chat_websocket and broadcast_to_room.   *)
(* A socket record is one accepted connection and its handler: pc is       *)
(* "recv" while the handler waits in receive_text, "bcast" while it is     *)
(* inside broadcast_to_room between two sends, "closed" after it returned; *)
(* alive says whether the client is still there; inbox is what the client  *)
(* was sent; b is the position of the running broadcast, with the number   *)
(* of connections accepted before it began in `since`.                     *)
(***************************************************************************)
NoBroadcast ==
    [message |-> NoMessage, room |-> 0, i |-> 0, j |-> 0, n |-> 0,
     exclude |-> 0, since |-> 0]

\* register_user for the new user "ana"
Join ==
    /\ "ana" \notin DOMAIN users_db
    /\ WithinRegistered("ana")
    /\ register_user("ana", "password1")
    /\ UNCHANGED <<connected_users, user_sessions, vpn_sessions,
                   active_connections, sockets, uuids, frames, chatRet>>
    /\ UNCHANGED issued
    /\ UNCHANGED <<vpnVars, cryptoVars>>

\* authenticate_user with the credentials of a registered user from 10.8.0.1
Login ==
    /\ \E username \in DOMAIN users_db, password \in Passwords :
          /\ verify_password(password, users_db[username].hashed_password)
          /\ authenticate_user(username, password, NetBase + 1)
    /\ UNCHANGED <<users_db, chat_rooms, active_connections, sockets, uuids,
                   frames, chatRet>>
    /\ UNCHANGED <<vpnVars, cryptoVars>>

\* create_secure_channel between registered users
OpenRoom ==
    /\ \E user1 \in DOMAIN users_db, user2 \in DOMAIN users_db :
          create_secure_channel(user1, user2)
    /\ UNCHANGED <<users_db, connected_users, user_sessions, vpn_sessions,
                   active_connections, sockets, uuids, frames, chatRet>>
    /\ UNCHANGED issued
    /\ UNCHANGED <<vpnVars, cryptoVars>>

\* lines 94-113: the session is recorded, the connection is accepted and
\* stored under its session id, the user is marked online
WsAccept ==
    /\ Len(sockets) < MaxSockets
    /\ \E session_id \in 1..Len(user_sessions) :
          LET username == user_sessions[session_id] IN
          /\ sockets' = Append(sockets,
                               [session_id |-> session_id,
                                username |-> username, alive |-> TRUE,
                                pc |-> "recv", inbox |-> <<>>,
                                b |-> NoBroadcast])
          /\ active_connections' =
                Put(active_connections, session_id, Len(sockets) + 1)
          /\ connected_users' =
                IF username \in DOMAIN connected_users
                THEN [connected_users EXCEPT ![username].is_online = TRUE]
                ELSE connected_users
    /\ UNCHANGED <<users_db, user_sessions, vpn_sessions, chat_rooms, uuids,
                   frames, chatRet>>
    /\ UNCHANGED issued
    /\ UNCHANGED <<vpnVars, cryptoVars>>

\* the client of socket w goes away
ClientGone ==
    /\ \E w \in 1..Len(sockets) :
          /\ sockets[w].alive
          /\ sockets[w].pc # "closed"
          /\ sockets' = [sockets EXCEPT ![w].alive = FALSE]
    /\ UNCHANGED <<users_db, connected_users, user_sessions, vpn_sessions,
                   chat_rooms, active_connections, uuids, frames, chatRet>>
    /\ UNCHANGED issued
    /\ UNCHANGED <<vpnVars, cryptoVars>>

\* lines 158-167: receive_text raises WebSocketDisconnect
WsDisconnect ==
    /\ \E w \in 1..Len(sockets) :
          /\ ~sockets[w].alive
          /\ sockets[w].pc = "recv"
          /\ sockets' = [sockets EXCEPT ![w].pc = "closed"]
          /\ active_connections' =
                IF sockets[w].session_id \in DOMAIN active_connections
                THEN Del(active_connections, sockets[w].session_id)
                ELSE active_connections
          /\ connected_users' =
                IF sockets[w].username \in DOMAIN connected_users
                THEN [connected_users EXCEPT
                         ![sockets[w].username].is_online = FALSE]
                ELSE connected_users
    /\ UNCHANGED <<users_db, user_sessions, vpn_sessions, chat_rooms, uuids,
                   frames, chatRet>>
    /\ UNCHANGED issued
    /\ UNCHANGED <<vpnVars, cryptoVars>>

\* lines 169-172: any other exception ends the handler of socket w
HandlerError(w) ==
    /\ sockets' = [sockets EXCEPT ![w].pc = "closed", ![w].alive = FALSE,
                                  ![w].b = NoBroadcast]
    /\ active_connections' =
          IF sockets[w].session_id \in DOMAIN active_connections
          THEN Del(active_connections, sockets[w].session_id)
          ELSE active_connections

\* lines 119-120, 169-172: a frame that is not JSON or lacks a key
WsBadFrame ==
    /\ frames < MaxFrames
    /\ \E w \in 1..Len(sockets) :
          /\ sockets[w].alive
          /\ sockets[w].pc = "recv"
          /\ HandlerError(w)
    /\ frames' = frames + 1
    /\ UNCHANGED <<users_db, connected_users, user_sessions, vpn_sessions,
                   chat_rooms, uuids, chatRet>>
    /\ UNCHANGED issued
    /\ UNCHANGED <<vpnVars, cryptoVars>>

\* mutant: a message create_message returned None for ends the handler
WsMessageFrameCall_Fatal(w, room_id) ==
    LET message == create_message(sockets[w].session_id, room_id) IN
    /\ frames < MaxFrames
    /\ sockets[w].alive
    /\ sockets[w].pc = "recv"
    /\ IF message # NoMessage
       THEN /\ sockets' =
                  [sockets EXCEPT
                      ![w].inbox = Append(@, Frame("message_sent", message)),
                      ![w].pc = "bcast",
                      ![w].b = [message |-> message,
                                room |-> RoomIndex(room_id),
                                i |-> 1, j |-> 0, n |-> -1,
                                exclude |-> 0,
                                since |-> Len(sockets)]]
            /\ uuids' = uuids + 1
            /\ UNCHANGED active_connections
       ELSE /\ HandlerError(w)
            /\ UNCHANGED uuids
    /\ frames' = frames + 1
    /\ UNCHANGED <<users_db, connected_users, user_sessions, vpn_sessions,
                   chat_rooms, chatRet>>
    /\ UNCHANGED issued
    /\ UNCHANGED <<vpnVars, cryptoVars>>

\* lines 123-146: a frame of type "message" for room_id arrives at the
\* handler of socket w
WsMessageFrameCall(w, room_id) ==
    LET message == create_message(sockets[w].session_id, room_id) IN
    /\ frames < MaxFrames
    /\ sockets[w].alive
    /\ sockets[w].pc = "recv"
    /\ IF message # NoMessage
       THEN /\ sockets' =
                  [sockets EXCEPT
                      ![w].inbox = Append(@, Frame("message_sent", message)),
                      ![w].pc = "bcast",
                      ![w].b = [message |-> message,
                                room |-> RoomIndex(room_id),
                                i |-> 1, j |-> 0, n |-> -1,
                                exclude |-> 0,
                                since |-> Len(sockets)]]
            /\ uuids' = uuids + 1
            /\ UNCHANGED active_connections
       ELSE /\ sockets' =
                  [sockets EXCEPT
                      ![w].inbox = Append(@, Frame("error", NoMessage))]
            /\ UNCHANGED active_connections
            /\ UNCHANGED uuids
    /\ frames' = frames + 1
    /\ UNCHANGED <<users_db, connected_users, user_sessions, vpn_sessions,
                   chat_rooms, chatRet>>
    /\ UNCHANGED issued
    /\ UNCHANGED <<vpnVars, cryptoVars>>

WsMessageFrame ==
    \E w \in 1..Len(sockets), room_id \in RoomIds :
       WsMessageFrameCall(w, room_id)

\* lines 148-156: a frame of type "typing"; room_id may be missing
WsTypingFrame ==
    /\ frames < MaxFrames
    /\ \E w \in 1..Len(sockets), room_id \in RoomIds :
          /\ sockets[w].alive
          /\ sockets[w].pc = "recv"
          /\ sockets' =
                IF RoomIndex(room_id) # 0
                THEN [sockets EXCEPT
                         ![w].pc = "bcast",
                         ![w].b = [message |->
                                       Typing(room_id, sockets[w].username),
                                   room |-> RoomIndex(room_id),
                                   i |-> 1, j |-> 0, n |-> -1,
                                   exclude |-> sockets[w].session_id,
                                   since |-> Len(sockets)]]
                ELSE sockets
    /\ frames' = frames + 1
    /\ UNCHANGED <<users_db, connected_users, user_sessions, vpn_sessions,
                   chat_rooms, active_connections, uuids, chatRet>>
    /\ UNCHANGED issued
    /\ UNCHANGED <<vpnVars, cryptoVars>>

(***************************************************************************)
(* broadcast_to_room, lines 189-201.  The outer loop walks                 *)
(* room.participants by index i; the inner loop walks                      *)
(* user_sessions.items() with a dict iterator that raises RuntimeError     *)
(* when the dict has another size than n, its size when the iterator was   *)
(* made.  Scan runs the loops from the position after (i, j) to the next   *)
(* send_text, to the end, or to the RuntimeError.                          *)
(***************************************************************************)
RECURSIVE Scan(_, _, _, _, _)
Scan(room, i, j, n, exclude) ==
    IF i > Len(chat_rooms[room].participants)
    THEN [kind |-> "done", i |-> i, j |-> j, n |-> n]
    ELSE IF n # Len(user_sessions)
    THEN [kind |-> "error", i |-> i, j |-> j, n |-> n]
    ELSE IF j + 1 > Len(user_sessions)
    THEN Scan(room, i + 1, 0, Len(user_sessions), exclude)
    ELSE IF /\ user_sessions[j + 1] = chat_rooms[room].participants[i]
            /\ (j + 1) \in DOMAIN active_connections
            /\ (j + 1) # exclude
    THEN [kind |-> "send", i |-> i, j |-> j + 1, n |-> n]
    ELSE Scan(room, i, j + 1, n, exclude)

\* where the broadcast of socket w gets to when it runs on
NextSend(w) ==
    LET b == sockets[w].b IN
    Scan(b.room, b.i, b.j, IF b.n = -1 THEN Len(user_sessions) ELSE b.n,
         b.exclude)

\* mutant: send_text outside the try of lines 195-201
SendText_Uncaught(w, r) ==
    LET target == active_connections[r.j] IN
    IF sockets[target].alive
    THEN /\ sockets' =
               [sockets EXCEPT
                   ![target].inbox =
                       Append(@, Frame("new_message", sockets[w].b.message)),
                   ![w].b = [sockets[w].b EXCEPT !.i = r.i, !.j = r.j,
                                                 !.n = r.n]]
         /\ UNCHANGED active_connections
    ELSE HandlerError(w)

\* lines 194-201: send_text to the connection of session r.j; it raises
\* when the client is gone, and the exception is logged and dropped
SendText(w, r) ==
    LET target == active_connections[r.j] IN
    /\ sockets' =
          [sockets EXCEPT
              ![target].inbox =
                  IF sockets[target].alive
                  THEN Append(@, Frame("new_message", sockets[w].b.message))
                  ELSE @,
              ![w].b = [sockets[w].b EXCEPT !.i = r.i, !.j = r.j, !.n = r.n]]
    /\ UNCHANGED active_connections

\* the handler of socket w runs broadcast_to_room up to its next await
BroadcastStep ==
    /\ \E w \in 1..Len(sockets) :
          /\ sockets[w].pc = "bcast"
          /\ LET r == NextSend(w)
             IN CASE r.kind = "send" -> SendText(w, r)
                  [] r.kind = "done" ->
                       /\ sockets' = [sockets EXCEPT ![w].pc = "recv",
                                                     ![w].b = NoBroadcast]
                       /\ UNCHANGED active_connections
                  [] OTHER -> HandlerError(w)
    /\ UNCHANGED <<users_db, connected_users, user_sessions, vpn_sessions,
                   chat_rooms, uuids, frames, chatRet>>
    /\ UNCHANGED issued
    /\ UNCHANGED <<vpnVars, cryptoVars>>

(***************************************************************************)
(* Part 3.  KyberManager and AESGCMCipher.                                 *)
(***************************************************************************)
\* key material as bytes or text: form is "der" for the DER bytes of a key,
\* "base64" for their base64 text
PublicDer(k) == [form |-> "der", part |-> "public", k |-> k]
SecretDer(k) == [form |-> "der", part |-> "secret", k |-> k]
\* base64.b64encode(data).decode("utf-8")
b64encode(data) == [data EXCEPT !.form = "base64"]
\* the argument left out: public_key = None, secret_key = None
NoArg == [form |-> "None", part |-> "", k |-> 0]

\* the dictionary generate_keypair returns for pair k, lines 85-88
generate_keypair_result(k) ==
    [public_key |-> b64encode(PublicDer(k)),
     secret_key |-> b64encode(SecretDer(k))]

\* serialization.load_der_public_key / load_der_private_key: the number of
\* the key, 0 when the data is not the DER coding of such a key (the call
\* raises)
load_der_key(data, part) ==
    IF data.form = "der" /\ data.part = part THEN data.k ELSE 0

\* the result of a call.  An RSA-OAEP ciphertext is kept as the number k of
\* the public key and the secret it encrypted: the private key k recovers
\* the secret and no other key does (decrypt raises)
CryptoResult(op, ok, error) ==
    [op |-> op, ok |-> ok, error |-> error, arg |-> NoArg,
     secret_key |-> NoArg, shared |-> 0,
     ciphertext |-> [k |-> 0, secret |-> 0], secret |-> 0, entry |-> 0,
     tamper |-> <<"none", 0>>, cipher |-> 0, plaintext |-> 0]

\* KyberManager.generate_keypair
GenerateKeypair ==
    /\ pairs < MaxKeypairs
    /\ pairs' = pairs + 1
    /\ keypair' = pairs + 1
    /\ cryptoRet' = CryptoResult("generate_keypair", TRUE, "none")
    /\ UNCHANGED <<entropy, ciphers, sealed>>
    /\ UNCHANGED <<vpnVars, chatVars>>

\* KyberManager.encapsulate(public_key): the result of the call, with the
\* argument it was given; shared_key = os.urandom(32) is the next value of
\* the source
encapsulate(public_key) ==
    IF public_key = NoArg /\ keypair = 0
    THEN [CryptoResult("encapsulate", FALSE, "ValueError")
             EXCEPT !.arg = public_key]
    ELSE LET k == IF public_key = NoArg THEN keypair
                  ELSE load_der_key(public_key, "public") IN
         IF k = 0
         THEN [CryptoResult("encapsulate", FALSE, "load_der_public_key")
                  EXCEPT !.arg = public_key]
         ELSE [CryptoResult("encapsulate", TRUE, "none")
                  EXCEPT !.arg = public_key,
                         !.shared = entropy + 1,
                         !.ciphertext = [k |-> k, secret |-> entropy + 1]]

\* encapsulate is called with a key of a pair generated so far, as the text
\* generate_keypair returned or as the DER bytes it decodes to, or with no
\* key
Encapsulate ==
    /\ entropy < MaxEntropy
    /\ \E public_key \in
             {generate_keypair_result(k).public_key : k \in 1..pairs}
             \cup {PublicDer(k) : k \in 1..pairs} \cup {NoArg} :
          /\ cryptoRet' = encapsulate(public_key)
          /\ entropy' = IF encapsulate(public_key).ok THEN entropy + 1
                        ELSE entropy
    /\ UNCHANGED <<keypair, pairs, ciphers, sealed>>
    /\ UNCHANGED <<vpnVars, chatVars>>

\* KyberManager.decapsulate(ciphertext, secret_key), applied to the result r
\* of the encapsulate call before it; the result keeps what r holds
decapsulate(r, secret_key) ==
    LET call == [r EXCEPT !.op = "decapsulate", !.secret_key = secret_key] IN
    IF secret_key = NoArg /\ keypair = 0
    THEN [call EXCEPT !.ok = FALSE, !.error = "ValueError"]
    ELSE LET k == IF secret_key = NoArg THEN keypair
                  ELSE load_der_key(secret_key, "secret") IN
         IF k = 0
         THEN [call EXCEPT !.ok = FALSE, !.error = "load_der_private_key"]
         ELSE IF r.ciphertext.k # k
         THEN [call EXCEPT !.ok = FALSE, !.error = "RuntimeError"]
         ELSE [call EXCEPT !.secret = r.ciphertext.secret]

\* decapsulate is called with the ciphertext encapsulate returned and a
\* secret key in one of the same forms
Decapsulate ==
    /\ cryptoRet.op = "encapsulate"
    /\ cryptoRet.ok
    /\ \E secret_key \in
             {generate_keypair_result(k).secret_key : k \in 1..pairs}
             \cup {SecretDer(k) : k \in 1..pairs} \cup {NoArg} :
          cryptoRet' = decapsulate(cryptoRet, secret_key)
    /\ UNCHANGED <<keypair, pairs, entropy, ciphers, sealed>>
    /\ UNCHANGED <<vpnVars, chatVars>>

(***************************************************************************)
(* AESGCMCipher.  AES-GCM of the cryptography package: the ciphertext is   *)
(* the plaintext xor a key stream of key and nonce, followed by a tag over *)
(* key, nonce, associated data and ciphertext; decrypt raises InvalidTag   *)
(* unless the tag is the one of what it is given.  Plaintexts are two bits *)
(* wide, the tag is kept as what it was computed from and the bits         *)
(* flipped in it.                                                          *)
(***************************************************************************)
\* associated_data = None
NoAad == "None"

\* x with the bits of mask flipped, for x and mask in 0..3
Xor(x, mask) ==
    ((x + mask) % 2) + 2 * (((x \div 2) + (mask \div 2)) % 2)

KeyStream(key, nonce) == (key + 2 * nonce) % 4
Tag(key, nonce, aad, body) ==
    [key |-> key, nonce |-> nonce, aad |-> aad, body |-> body, flipped |-> 0]

\* AESGCM.encrypt(nonce, plaintext, associated_data): ciphertext and tag
AESGCM_encrypt(key, nonce, plaintext, aad) ==
    [body |-> Xor(plaintext, KeyStream(key, nonce)),
     tag |-> Tag(key, nonce, aad, Xor(plaintext, KeyStream(key, nonce)))]

\* AESGCMCipher.__init__(key=None): self.key = os.urandom(32)
NewCipher ==
    /\ entropy < MaxEntropy
    /\ ciphers' = Append(ciphers, entropy + 1)
    /\ entropy' = entropy + 1
    /\ cryptoRet' = CryptoResult("AESGCMCipher", TRUE, "none")
    /\ UNCHANGED <<keypair, pairs, sealed>>
    /\ UNCHANGED <<vpnVars, chatVars>>

\* mutant: the nonce is drawn when the cipher is made, not in encrypt
encrypt_NonceOfCipher(cipher, plaintext, aad) ==
    [cipher |-> cipher, plaintext |-> plaintext, aad |-> aad,
     nonce |-> ciphers[cipher],
     ciphertext |-> AESGCM_encrypt(ciphers[cipher], ciphers[cipher],
                                   plaintext, aad)]

\* AESGCMCipher.encrypt: nonce = os.urandom(12) is the next value of the
\* source; the dictionary returned, with the arguments of the call
encrypt(cipher, plaintext, aad) ==
    [cipher |-> cipher, plaintext |-> plaintext, aad |-> aad,
     nonce |-> entropy + 1,
     ciphertext |-> AESGCM_encrypt(ciphers[cipher], entropy + 1,
                                   plaintext, aad)]

Encrypt ==
    /\ entropy < MaxEntropy
    /\ \E cipher \in 1..Len(ciphers), plaintext \in {1, 2},
          aad \in {NoAad, "header"} :
          /\ sealed' = Append(sealed, encrypt(cipher, plaintext, aad))
          /\ cryptoRet' = [CryptoResult("encrypt", TRUE, "none")
                              EXCEPT !.entry = Len(sealed) + 1,
                                     !.cipher = cipher]
    /\ entropy' = entropy + 1
    /\ UNCHANGED <<keypair, pairs, ciphers>>
    /\ UNCHANGED <<vpnVars, chatVars>>

\* what a caller of decrypt presents of the result e of an encrypt call:
\* nonce, ciphertext and associated data as they were, or with one bit of
\* the ciphertext or of the tag flipped, another nonce, or other
\* associated data
Tampers ==
    {<<"none", 0>>, <<"nonce", 0>>, <<"aad", 0>>}
    \cup {<<"body", bit>> : bit \in {1, 2}}
    \cup {<<"tag", bit>> : bit \in {1, 2}}
Presented(e, tamper) ==
    [nonce |-> IF tamper[1] = "nonce" THEN e.nonce + 1 ELSE e.nonce,
     aad |-> IF tamper[1] # "aad" THEN e.aad
             ELSE IF e.aad = NoAad THEN "header" ELSE NoAad,
     data |-> IF tamper[1] \in {"none", "nonce", "aad"} THEN e.ciphertext
              ELSE IF tamper[1] = "body"
              THEN [e.ciphertext EXCEPT !.body = Xor(@, tamper[2])]
              ELSE [e.ciphertext EXCEPT !.tag.flipped = Xor(@, tamper[2])]]

\* mutant: decrypt that returns what the key stream gives when the tag is
\* wrong
decrypt_Unauthenticated(cipher, nonce, data, aad) ==
    [CryptoResult("decrypt", TRUE, "none")
        EXCEPT !.plaintext = Xor(data.body, KeyStream(ciphers[cipher], nonce))]

\* AESGCMCipher.decrypt: AESGCM.decrypt raises InvalidTag unless the tag is
\* the one of key, nonce, associated data and ciphertext, and decrypt raises
\* ValueError for it; otherwise the plaintext
decrypt(cipher, nonce, data, aad) ==
    IF data.tag # Tag(ciphers[cipher], nonce, aad, data.body)
    THEN CryptoResult("decrypt", FALSE, "ValueError")
    ELSE [CryptoResult("decrypt", TRUE, "none")
             EXCEPT !.plaintext =
                        Xor(data.body, KeyStream(ciphers[cipher], nonce))]

Decrypt ==
    /\ \E entry \in 1..Len(sealed), tamper \in Tampers,
          cipher \in 1..Len(ciphers) :
          LET p == Presented(sealed[entry], tamper) IN
          cryptoRet' = [decrypt(cipher, p.nonce, p.data, p.aad)
                           EXCEPT !.entry = entry, !.tamper = tamper,
                                  !.cipher = cipher]
    /\ UNCHANGED <<keypair, pairs, entropy, ciphers, sealed>>
    /\ UNCHANGED <<vpnVars, chatVars>>

CryptoInit ==
    /\ keypair = 0
    /\ pairs = 0
    /\ entropy = 0
    /\ ciphers = <<>>
    /\ sealed = <<>>
    /\ cryptoRet = CryptoResult("none", FALSE, "none")

(***************************************************************************)
(* MessagingService.__init__ and the module state of chat.py               *)
(***************************************************************************)
ChatInit ==
    /\ users_db = [u \in {DemoUsers[i] : i \in 1..Len(DemoUsers)} |->
                      [display_name |-> u,
                       hashed_password |->
                           get_password_hash(DemoPassword(u), 1)]]
    /\ connected_users = <<>>
    /\ user_sessions = <<>>
    /\ vpn_sessions = <<>>
    /\ chat_rooms = <<[id |-> GeneralId, participants |-> DemoUsers,
                       is_group |-> TRUE, created_at |-> now]>>
    /\ active_connections = <<>>
    /\ sockets = <<>>
    /\ uuids = 0
    /\ frames = 0
    /\ chatRet = ChatResult("none", FALSE, "none", NoMessage, NoToken)
    /\ issued = <<>>

(***************************************************************************)
(* VPNManager.__init__                                                     *)
(***************************************************************************)
VpnInit ==
    /\ vpnSubnetSize \in {256, 2}
    /\ kyber_keypair = FALSE
    /\ aes = NoKey
    /\ tun = FALSE
    /\ connected = FALSE
    /\ server = NoServer
    /\ connection_time = 0
    /\ vpn_ip = NoIp
    /\ bytes_sent = 0
    /\ bytes_received = 0
    /\ latency = 0
    /\ status_task = NoTask
    /\ tasks = <<>>
    /\ waiters = <<>>
    /\ ready = <<>>
    /\ calls = 0
    /\ ret = Result(0, "none", FALSE, "none", NoIp, "none")
    /\ now = 1

Init == VpnInit /\ ChatInit /\ CryptoInit

Next ==
    \/ ConnectRequest
    \/ DisconnectRequest
    \/ StepConnect
    \/ StepDisconnect
    \/ StepResume
    \/ StepTask
    \/ TimerFire
    \/ ClockTick

Spec == Init /\ [][Next]_vars

(***************************************************************************)
(* The manager under scheduling.  The event loop runs every callback of    *)
(* its ready queue, so each step at the head of `ready` is eventually      *)
(* taken; nothing is assumed about when clients call or when a sleep       *)
(* ends.  The clients dial "server1" and the subnet is the default one.    *)
(***************************************************************************)
\* a connect request for "server1"
Dial ==
    /\ UNCHANGED <<chatVars, cryptoVars>>
    /\ calls < MaxCalls
    /\ ready' = Append(ready, Entry("connect", calls + 1, "server1"))
    /\ calls' = calls + 1
    /\ UNCHANGED <<vpnSubnetSize, kyber_keypair, connVars, waiters, ret, now>>

\* the initial states under the default VPN_SUBNET, a /24
InitChat == Init /\ vpnSubnetSize = 256

NextLive ==
    \/ Dial
    \/ DisconnectRequest
    \/ StepConnect
    \/ StepDisconnect
    \/ StepResume
    \/ StepTask
    \/ TimerFire

SpecLive ==
    /\ InitChat
    /\ [][NextLive]_vars
    /\ WF_vars(StepConnect)
    /\ WF_vars(StepDisconnect)
    /\ WF_vars(StepResume)
    /\ WF_vars(StepTask)

NextChat ==
    \/ Register
    \/ Authenticate
    \/ CreateSecureChannel
    \/ CreateMessage

SpecChat == InitChat /\ [][NextChat]_vars

\* registration and authentication, for every new name
NextRegister ==
    \/ SignUp
    \/ Authenticate

SpecRegister == InitChat /\ [][NextRegister]_vars

\* registration, private rooms, the room lists and the clock
NextRooms ==
    \/ SignUp
    \/ CreateSecureChannel
    \/ GetRooms
    \/ ClockTick

SpecRooms == InitChat /\ [][NextRooms]_vars

\* KyberManager and the ciphers of AESGCMCipher
NextCrypto ==
    \/ GenerateKeypair
    \/ Encapsulate
    \/ Decapsulate
    \/ NewCipher
    \/ Encrypt
    \/ Decrypt

SpecCrypto == InitChat /\ [][NextCrypto]_vars

\* the service, its tokens and the clock
NextToken ==
    \/ Join
    \/ Login
    \/ VerifyToken
    \/ CreateMessage
    \/ ClockTick

SpecToken == InitChat /\ [][NextToken]_vars

NextWs ==
    \/ Join
    \/ Login
    \/ OpenRoom
    \/ WsAccept
    \/ WsMessageFrame
    \/ WsTypingFrame
    \/ WsBadFrame
    \/ BroadcastStep
    \/ ClientGone
    \/ WsDisconnect

SpecWs == InitChat /\ [][NextWs]_vars

(***************************************************************************)
(* Two senders.  The state after usuario1 and usuario2 logged in from      *)
(* 10.8.0.1, each opened its WebSocket, and usuario1 sent a message to     *)
(* "general": create_message accepted it, its handler sent the             *)
(* acknowledgement and is suspended in that send (chat.py:133).  frames    *)
(* counts the frames sent from here on.                                    *)
(***************************************************************************)
InitOrder ==
    /\ VpnInit
    /\ CryptoInit
    /\ vpnSubnetSize = 256
    /\ users_db = [u \in {DemoUsers[i] : i \in 1..Len(DemoUsers)} |->
                      [display_name |-> u,
                       hashed_password |->
                           get_password_hash(DemoPassword(u), 1)]]
    /\ connected_users =
          [u \in {DemoUsers[i] : i \in 1..Len(DemoUsers)} |->
              [is_online |-> TRUE, vpn_ip |-> NetBase + 1]]
    /\ user_sessions = DemoUsers
    /\ vpn_sessions = Put(<<>>, NetBase + 1, "usuario2")
    /\ chat_rooms = <<[id |-> GeneralId, participants |-> DemoUsers,
                       is_group |-> TRUE, created_at |-> now]>>
    /\ active_connections = <<1, 2>>
    /\ sockets =
          <<[session_id |-> 1, username |-> "usuario1", alive |-> TRUE,
             pc |-> "bcast",
             inbox |-> <<Frame("message_sent",
                               Message(1, "usuario1", GeneralId))>>,
             b |-> [message |-> Message(1, "usuario1", GeneralId),
                    room |-> 1, i |-> 1, j |-> 0, n |-> -1, exclude |-> 0,
                    since |-> 2]],
            [session_id |-> 2, username |-> "usuario2", alive |-> TRUE,
             pc |-> "recv", inbox |-> <<>>, b |-> NoBroadcast]>>
    /\ uuids = 1
    /\ frames = 0
    /\ chatRet = ChatResult("none", FALSE, "none", NoMessage, NoToken)
    /\ issued =
          [k \in 1..2 |->
              create_access_token([sub |-> DemoUsers[k], session_id |-> k,
                                   vpn_ip |-> NetBase + 1])]

NextOrder ==
    \/ WsMessageFrame
    \/ WsTypingFrame
    \/ BroadcastStep
    \/ ClientGone
    \/ WsDisconnect

SpecOrder == InitOrder /\ [][NextOrder]_vars

(***************************************************************************)
(* Properties of the connection lifecycle.                                 *)
(***************************************************************************)
\* the manager is DISCONNECTED and holds nothing of a connection
Disconnected ==
    /\ ~connected
    /\ aes = NoKey
    /\ ~tun
    /\ vpn_ip = NoIp
    /\ server = NoServer
    /\ connection_time = 0
    /\ bytes_sent = 0
    /\ bytes_received = 0
    /\ latency = 0
    /\ status_task = NoTask

\* this step is the first step of the call at the head of the ready queue
Starts(kind) ==
    /\ ready # <<>>
    /\ Head(ready).kind = kind
    /\ \A i \in 1..Len(ready') : ready'[i] # Head(ready)

\* this step is the return of a call of operation op
Returns(op) == ret'.id # ret.id /\ ret'.op = op

\* the calls suspended inside _cleanup, waiting for the status task or
\* already scheduled to resume
Suspended ==
    {ready[i].id : i \in {j \in 1..Len(ready) : ready[j].kind = "resume"}}
    \cup UNION {{waiters[t][i].id : i \in 1..Len(waiters[t])} :
                    t \in 1..Len(waiters)}

\* C1: from DISCONNECTED, connect(serverId) with a serverId of the catalog,
\* when no step of the handshake raises, returns success with the address it
\* allocated, and get_status() then reports connected, that server and an
\* address inside the configured subnet.
C1_ConnectEstablishes ==
    [][(/\ Starts("connect")
        /\ ~connected
        /\ Head(ready).arg \in VPN_SERVERS
        /\ Returns("connect")
        /\ ret'.error = "none")
       => (/\ ret'.success
           /\ ret'.vpnIp = vpn_ip'
           /\ connected'
           /\ get_status'.connected
           /\ get_status'.server_id = Head(ready).arg
           /\ InSubnet(get_status'.vpnIp))]_vars

C1_Witness ==
    /\ ret.op = "connect"
    /\ ret.success
    /\ get_status.connected
    /\ get_status.server_id = "server1"
    /\ InSubnet(get_status.vpnIp)

\* C2: a connect that starts while the manager is connected (a second
\* connect queued behind the first one included) returns failure and leaves
\* server, address, cipher, counters, latency and the telemetry task as
\* they were.
C2_ConnectWhileConnectedFails ==
    [][(Starts("connect") /\ connected)
       => (/\ Returns("connect")
           /\ ret'.id = Head(ready).id
           /\ ~ret'.success
           /\ UNCHANGED connVars)]_vars

C2_Witness ==
    /\ ret.op = "connect"
    /\ ret.kind = "conflict"
    /\ connected
    /\ status_task \in LiveTasks
    /\ bytes_sent > 0

\* C3: a connect whose try block raises returns failure with the manager
\* DISCONNECTED and nothing of the attempt left, and get_status() reports
\* connected in no state in which a failing connect is still in progress.
C3_FailedConnectRollsBack ==
    /\ [][(Returns("connect") /\ ret'.kind = "error")
          => (/\ ~ret'.success
              /\ Disconnected'
              /\ Len(tasks') = Len(tasks)
              /\ ~get_status'.connected)]_vars
    /\ [](\A t \in 1..Len(waiters) : \A i \in 1..Len(waiters[t]) :
             waiters[t][i].arg = "error" => ~get_status.connected)
    /\ [](\A i \in 1..Len(ready) :
             (ready[i].kind = "resume" /\ ready[i].arg = "error")
                => ~get_status.connected)

\* a connect failed after the cipher and the tunnel object had been created
C3_Witness ==
    /\ ret.op = "connect"
    /\ ret.kind = "error"
    /\ ret.error = "IndexError"
    /\ Disconnected

\* C4: while a connect or disconnect call is suspended inside its state
\* transition, every other connect or disconnect call that starts returns
\* at once with a conflict.
C4_CallsMutuallyExclusive ==
    [][((Starts("connect") \/ Starts("disconnect")) /\ Suspended # {})
       => (/\ ret'.id = Head(ready).id
           /\ ~ret'.success
           /\ ret'.kind = "conflict")]_vars

\* C5: at most one telemetry task is live, and none is live while the
\* manager is disconnected.
C5_AtMostOneLiveTask ==
    /\ Cardinality(LiveTasks) <= 1
    /\ (~connected => LiveTasks = {})

\* C6: when a disconnect that found the manager connected returns, the
\* manager is DISCONNECTED and get_status() reports connected false, zero
\* uptime, counters and latency, no address and no server id.
C6_DisconnectResets ==
    [][(Returns("disconnect") /\ ret'.kind = "disconnected")
       => (/\ ret'.success
           /\ Disconnected'
           /\ get_status' = [connected |-> FALSE, uptime |-> 0,
                             bytesReceived |-> 0, bytesSent |-> 0,
                             latency |-> 0, vpnIp |-> NoIp,
                             server_id |-> NoServer])]_vars

C6_Witness ==
    /\ ret.op = "disconnect"
    /\ ret.kind = "disconnected"
    /\ Disconnected
    /\ Len(tasks) > 0

\* C7: a disconnect that starts while the manager is not connected returns
\* success in the same step and changes no attribute of the manager.
C7_DisconnectWhenDisconnectedIsNoop ==
    [][(Starts("disconnect") /\ ~connected)
       => (/\ Returns("disconnect")
           /\ ret'.id = Head(ready).id
           /\ ret'.success
           /\ UNCHANGED <<connVars, kyber_keypair>>)]_vars

C7_Witness ==
    /\ ret.op = "disconnect"
    /\ ret.kind = "noop"
    /\ ret.success
    /\ ~connected

\* C8: a connect from DISCONNECTED with a server id that is not in the
\* catalog returns the not-found failure and creates no keypair, cipher,
\* address, tunnel or telemetry task.
C8_UnknownServerNotFound ==
    [][(Starts("connect") /\ ~connected /\ Head(ready).arg \notin VPN_SERVERS)
       => (/\ Returns("connect")
           /\ ret'.id = Head(ready).id
           /\ ~ret'.success
           /\ ret'.kind = "notfound"
           /\ ~connected'
           /\ UNCHANGED <<connVars, kyber_keypair>>)]_vars

C8_Witness ==
    /\ ret.op = "connect"
    /\ ret.kind = "notfound"
    /\ Disconnected
    /\ ~kyber_keypair

(***************************************************************************)
(* Properties of the messaging service and of the broadcast.               *)
(***************************************************************************)
\* room.participants of the room with this id
Participants(room_id) == chat_rooms[RoomIndex(room_id)].participants

\* the frame is in the inbox of connection x, with the connections at socks
HasFrame(socks, x, type, message) ==
    \E k \in 1..Len(socks[x].inbox) :
       socks[x].inbox[k] = Frame(type, message)

\* C9: create_message returns a message only for a recorded session id, an
\* existing room and a session identity that is a participant of the room;
\* the message then has that identity as sender, the room id given and the
\* sender in read_by.  For every other input it returns None.
C9_MessageOnlyFromParticipant ==
    /\ \A session_id \in SessionIds, room_id \in RoomIds :
          LET message == create_message(session_id, room_id)
              allowed ==
                  /\ session_id \in 1..Len(user_sessions)
                  /\ RoomIndex(room_id) # 0
                  /\ InList(user_sessions[session_id], Participants(room_id))
          IN /\ message # NoMessage =>
                   /\ allowed
                   /\ message.sender = user_sessions[session_id]
                   /\ message.room_id = room_id
                   /\ InList(message.sender, message.read_by)
             /\ ~allowed => message = NoMessage
    /\ (chatRet.op = "create_message" /\ chatRet.message # NoMessage) =>
          /\ InList(chatRet.message.sender, user_sessions)
          /\ RoomIndex(chatRet.message.room_id) # 0
          /\ InList(chatRet.message.sender,
                    Participants(chatRet.message.room_id))
          /\ InList(chatRet.message.sender, chatRet.message.read_by)

\* a message was created in a private room while a session of a user who is
\* not in that room exists
C9_Witness ==
    /\ chatRet.op = "create_message"
    /\ chatRet.message # NoMessage
    /\ chatRet.message.room_id.kind = "private"
    /\ \E session_id \in 1..Len(user_sessions) :
          ~InList(user_sessions[session_id],
                  Participants(chatRet.message.room_id))

\* C10: the new_message frame of an accepted message reaches no connection
\* of a non-participant and no connection of the session that sent the
\* message, and when its broadcast ends it has reached every connection
\* that was accepted before the broadcast began, is still open and
\* registered, belongs to a participant and is not the sender's session.
C10_BroadcastReachesTheRoom ==
    /\ [](\A w \in 1..Len(sockets) : \A k \in 1..Len(sockets[w].inbox) :
            LET f == sockets[w].inbox[k] IN
            (f.type = "new_message" /\ f.message.kind = "message") =>
               /\ InList(sockets[w].username, Participants(f.message.room_id))
               /\ \A v \in 1..Len(sockets) :
                     HasFrame(sockets, v, "message_sent", f.message)
                        => sockets[v].session_id # sockets[w].session_id)
    /\ [][\A w \in 1..Len(sockets) :
            (/\ sockets[w].pc = "bcast"
             /\ sockets'[w].pc # "bcast"
             /\ sockets[w].b.message.kind = "message")
            => \A x \in 1..sockets[w].b.since :
                  (/\ sockets'[x].alive
                   /\ sockets'[x].pc # "closed"
                   /\ sockets[x].session_id \in DOMAIN active_connections'
                   /\ active_connections'[sockets[x].session_id] = x
                   /\ InList(sockets[x].username,
                             Participants(sockets[w].b.message.room_id))
                   /\ sockets[x].session_id # sockets[w].session_id)
                  => HasFrame(sockets', x, "new_message",
                              sockets[w].b.message)]_vars

\* connection x is one the broadcast of w has to reach: accepted before the
\* broadcast began, open, registered under its session id, of a participant
\* of the room, and not of the session of w
EligibleSink(socks, conns, w, x) ==
    /\ x \in 1..socks[w].b.since
    /\ socks[x].alive
    /\ socks[x].pc # "closed"
    /\ socks[x].session_id \in DOMAIN conns
    /\ conns[socks[x].session_id] = x
    /\ InList(socks[x].username,
              chat_rooms[socks[w].b.room].participants)
    /\ socks[x].session_id # socks[w].session_id

\* C11: a send_text that raises inside a broadcast does not raise out of
\* the broadcast and does not cut it short: the handler stays inside the
\* broadcast at the sink that failed, stays registered, and no sink loses
\* or gains a frame by the failure; and a broadcast that returns has
\* delivered its frame to every other eligible sink.
C11_SendFailureIsolated ==
    [][\A w \in 1..Len(sockets) :
          /\ (/\ sockets[w].pc = "bcast"
              /\ sockets'[w].b # sockets[w].b
              /\ NextSend(w).kind = "send"
              /\ ~sockets[active_connections[NextSend(w).j]].alive)
             => /\ sockets'[w].pc = "bcast"
                /\ sockets'[w].b.i = NextSend(w).i
                /\ sockets'[w].b.j = NextSend(w).j
                /\ sockets'[w].b.message = sockets[w].b.message
                /\ active_connections' = active_connections
                /\ \A x \in 1..Len(sockets) :
                      /\ sockets'[x].inbox = sockets[x].inbox
                      /\ sockets'[x].alive = sockets[x].alive
          /\ (sockets[w].pc = "bcast" /\ sockets'[w].pc = "recv")
             => \A x \in 1..Len(sockets) :
                   EligibleSink(sockets, active_connections, w, x)
                      => HasFrame(sockets', x, "new_message",
                                  sockets[w].b.message)]_vars

\* the broadcast of a message returned although the sink before the
\* sender's own had failed: that connection is gone, still registered and
\* without the frame, and the sender's connection, which comes later in the
\* room, has it
C11_Witness ==
    \E w \in 1..Len(sockets), x \in 1..Len(sockets) :
       /\ sockets[w].pc = "recv"
       /\ ~sockets[x].alive
       /\ sockets[x].pc = "recv"
       /\ sockets[x].session_id \in DOMAIN active_connections
       /\ active_connections[sockets[x].session_id] = x
       /\ \E k \in 1..Len(sockets[w].inbox) :
             LET f == sockets[w].inbox[k] IN
             /\ f.type = "new_message"
             /\ f.message.kind = "message"
             /\ f.message.sender = sockets[w].username
             /\ InList(sockets[x].username, Participants(f.message.room_id))
             /\ ~HasFrame(sockets, x, "new_message", f.message)
             /\ sockets[x].username # sockets[w].username
             /\ \E p, q \in 1..Len(Participants(f.message.room_id)) :
                   /\ p < q
                   /\ Participants(f.message.room_id)[p] = sockets[x].username
                   /\ Participants(f.message.room_id)[q] = sockets[w].username

\* C12: in every inbox the new_message frames of the messages of one room
\* are in the order in which create_message accepted the messages (message
\* ids are drawn in that order).
C12_SinkOrderIsAcceptanceOrder ==
    \A x \in 1..Len(sockets) : \A k1, k2 \in 1..Len(sockets[x].inbox) :
       LET f1 == sockets[x].inbox[k1]
           f2 == sockets[x].inbox[k2]
       IN (/\ k1 < k2
           /\ f1.type = "new_message" /\ f1.message.kind = "message"
           /\ f2.type = "new_message" /\ f2.message.kind = "message"
           /\ f1.message.room_id = f2.message.room_id)
          => f1.message.id < f2.message.id

(***************************************************************************)
(* Properties of authentication and registration.                          *)
(***************************************************************************)
\* the address parses and lies in VPN_SUBNET
AddressOk(claimed_ip) == claimed_ip # BadIp /\ InSubnet(claimed_ip)

\* the failures authenticate_user reports for the address
AddressFailures == {"invalid_ip", "off_vpn"}

\* C13: authenticate_user reports the failure of the first failing check
\* in the order address, username, password: an address that does not
\* parse or is outside the subnet gives the address failure whatever the
\* username and the password are; with a good address an unknown username
\* gives not-found whatever the password is; a wrong password is reported
\* only for a good address and a known username.
C13_FirstFailingCheckReported ==
    /\ \A username \in Usernames, password \in Passwords,
          claimed_ip \in ClaimedIps :
          LET outcome == authenticate_outcome(username, password, claimed_ip)
              known == username \in DOMAIN users_db
          IN /\ ~AddressOk(claimed_ip) <=> outcome \in AddressFailures
             /\ (AddressOk(claimed_ip) /\ ~known) <=> outcome = "notfound"
             /\ outcome = "credentials" =>
                   /\ AddressOk(claimed_ip)
                   /\ known
                   /\ ~verify_password(password,
                                       users_db[username].hashed_password)
    /\ chatRet.op = "authenticate" =>
          /\ chatRet.kind = "notfound" => chatRet.given = <<FALSE, FALSE>>
          /\ chatRet.kind = "credentials" => chatRet.given = <<TRUE, FALSE>>
          /\ chatRet.kind = "authenticated" => chatRet.given = <<TRUE, TRUE>>

\* authenticate_user reported the address failure to a call whose username
\* was not registered
C13_Witness ==
    /\ chatRet.op = "authenticate"
    /\ chatRet.kind \in AddressFailures
    /\ chatRet.given = <<FALSE, FALSE>>

\* C14: authenticate_user with an address that is not in the subnet fails
\* and returns no token for every username and password, and every failed
\* authenticate_user returns no token and leaves user_sessions,
\* vpn_sessions and connected_users as they were.
C14_OffSubnetAlwaysFails ==
    /\ [](\A username \in Usernames, password \in Passwords,
             claimed_ip \in ClaimedIps :
             ~AddressOk(claimed_ip) =>
                LET r == authenticate_result(username, password, claimed_ip)
                IN ~r.success /\ r.token = NoToken)
    /\ [][(chatRet'.op = "authenticate" /\ ~chatRet'.success)
             => /\ chatRet'.token = NoToken
                /\ UNCHANGED <<user_sessions, vpn_sessions,
                               connected_users>>]_vars

\* a registered username with its own password was refused from an
\* address outside the subnet, while sessions of earlier logins exist
C14_Witness ==
    /\ chatRet.op = "authenticate"
    /\ chatRet.kind = "off_vpn"
    /\ chatRet.given = <<TRUE, TRUE>>
    /\ chatRet.token = NoToken
    /\ Len(user_sessions) > 0

(***************************************************************************)
(* Properties of tokens and sessions.                                      *)
(***************************************************************************)
\* C15: every token issued names a recorded session id whose identity in
\* user_sessions is the identity of the token, whatever was registered or
\* authenticated since; and verify_token accepts every issued token until
\* it expires, which is not before it is issued.
C15_TokenBoundToSession ==
    /\ [](\A k \in 1..Len(issued) :
            /\ issued[k].payload.session_id \in 1..Len(user_sessions)
            /\ user_sessions[issued[k].payload.session_id]
                  = issued[k].payload.sub
            /\ issued[k].payload.exp >= now
                  => verify_token(issued[k]) = issued[k].payload)
    /\ [][Len(issued') > Len(issued) =>
            issued'[Len(issued')].payload.exp >= now']_vars

\* after two users authenticated, verify_token accepted the token of the
\* first
C15_Witness ==
    /\ Len(issued) = 2
    /\ issued[1].payload.sub # issued[2].payload.sub
    /\ chatRet.op = "verify_token"
    /\ chatRet.success
    /\ chatRet.token = issued[1]
    /\ chatRet.payload.sub = user_sessions[1]

\* C16: a session whose token has expired is not accepted any more:
\* create_message returns None for its session id and the session id is
\* not in user_sessions, which is what chat_websocket tests.
C16_ExpiredSessionRefused ==
    \A k \in 1..Len(issued) :
       issued[k].payload.exp < now =>
          /\ \A room_id \in RoomIds :
                create_message(issued[k].payload.session_id, room_id)
                   = NoMessage
          /\ issued[k].payload.session_id \notin 1..Len(user_sessions)

\* C17: verify_token returns the payload of the token, with the fields the
\* token was issued with, exactly when the signature is the one of the
\* payload under SECRET_KEY and exp is not in the past, and the one value
\* None for every other token.
C17_VerifyReturnsPayloadOrNone ==
    /\ \A token \in PresentedTokens :
          IF /\ token # Malformed
             /\ token.sig = Sign(SECRET_KEY, token.payload)
             /\ token.payload.exp >= now
          THEN /\ verify_token(token) = token.payload
               /\ verify_token(token) # NoPayload
          ELSE verify_token(token) = NoPayload
    /\ \A k \in 1..Len(issued) :
          /\ issued[k].payload.sub = user_sessions[k]
          /\ issued[k].payload.session_id = k
          /\ AddressOk(issued[k].payload.vpn_ip)
    /\ chatRet.op = "verify_token" =>
          IF chatRet.success
          THEN chatRet.payload = chatRet.token.payload
          ELSE chatRet.payload = NoPayload /\ chatRet.kind = "invalid"

\* verify_token returned None for an issued token with its own signature:
\* the token had expired
C17_Witness ==
    /\ chatRet.op = "verify_token"
    /\ ~chatRet.success
    /\ chatRet.payload = NoPayload
    /\ \E k \in 1..Len(issued) : chatRet.token = issued[k]

\* C18: register_user with a username that is taken returns the duplicate
\* failure and changes neither users_db nor any room, and no register_user
\* call changes the stored hash or display name of a user that existed.
C18_DuplicateRegisterRefused ==
    /\ [](\A username \in DOMAIN users_db :
             LET r == register_result(username)
             IN ~r.success /\ r.kind = "duplicate")
    /\ [][chatRet'.op = "register" =>
             /\ chatRet'.kind = "duplicate" =>
                   UNCHANGED <<users_db, chat_rooms>>
             /\ \A username \in DOMAIN users_db :
                   /\ username \in DOMAIN users_db'
                   /\ users_db'[username] = users_db[username]]_vars

\* a registration was refused as a duplicate after another one had been
\* accepted
C18_Witness ==
    /\ chatRet.op = "register"
    /\ chatRet.kind = "duplicate"
    /\ Cardinality(DOMAIN users_db) > Len(DemoUsers)

\* C19: the hash of a password is not the password, verify_password
\* accepts the password against its hash and refuses every other
\* password; every stored credential is such a hash; and for a user who
\* registered, authenticate_user from an address in the subnet succeeds
\* with the password of the registration and fails with another one.
C19_PasswordHashVerifies ==
    /\ \A p \in Passwords, q \in Passwords :
          LET hashed == get_password_hash(p, 1)
          IN /\ hashed # Plain(p)
             /\ verify_password(p, hashed)
             /\ q # p => ~verify_password(q, hashed)
    /\ \A username \in DOMAIN users_db, p \in Passwords :
          users_db[username].hashed_password # Plain(p)
    /\ \A username \in DOMAIN users_db \ {DemoUsers[i] : i \in 1..Len(DemoUsers)},
          p \in NewPasswords, q \in Passwords :
          /\ authenticate_outcome(username, p, NetBase + 5) = "authenticated"
          /\ q # p =>
                authenticate_outcome(username, q, NetBase + 5) = "credentials"

\* a user who registered was authenticated
C19_Witness ==
    /\ chatRet.op = "authenticate"
    /\ chatRet.success
    /\ ~InList(chatRet.token.payload.sub, DemoUsers)
    /\ chatRet.token.payload.sub \in DOMAIN users_db

\* C20: every key of users_db is in room.participants of "general"
\* exactly once.
C20_RegisteredOnceInGeneral ==
    /\ RoomIndex(GeneralId) # 0
    /\ \A username \in DOMAIN users_db :
          Cardinality({i \in 1..Len(Participants(GeneralId)) :
                          Participants(GeneralId)[i] = username}) = 1

\* two new users have registered
C20_Witness ==
    /\ NewNames \subseteq DOMAIN users_db
    /\ Cardinality(DOMAIN users_db) = Len(DemoUsers) + 2
    /\ Len(Participants(GeneralId)) = Len(DemoUsers) + 2

(***************************************************************************)
(* Properties of the private rooms and of the room lists.                  *)
(***************************************************************************)
\* the usernames in the participant list of a room
Members(room) == {room.participants[k] : k \in 1..Len(room.participants)}

\* C21: create_secure_channel(a, b) with a or b not in the user database
\* returns the failure "Uno o ambos usuarios no existen", and that call
\* stores no room and changes none of the stored rooms.
C21_UnknownUserNoRoom ==
    [][\A a \in Usernames, b \in Usernames :
          (/\ CreateSecureChannelCall(a, b)
           /\ (a \notin DOMAIN users_db \/ b \notin DOMAIN users_db))
          => (/\ ~chatRet'.success
              /\ chatRet'.kind = "notfound"
              /\ chat_rooms' = chat_rooms)]_vars

\* a call failed this way after a private room had been created
C21_Witness ==
    /\ chatRet.op = "create_secure_channel"
    /\ chatRet.kind = "notfound"
    /\ Len(chat_rooms) > 1

C23_RoomsOfUserInCreationOrder ==
    chatRet.op = "get_user_rooms" =>
        LET username == chatRet.given[1]
            rooms == chatRet.given[2]
        IN  /\ username \notin DOMAIN users_db => rooms = <<>>
            /\ \A k \in 1..Len(rooms) :
                  \E i \in 1..Len(chat_rooms) :
                     /\ chat_rooms[i].id = rooms[k].id
                     /\ username \in Members(chat_rooms[i])
                     /\ rooms[k].participants = chat_rooms[i].participants
                     /\ rooms[k].is_group = chat_rooms[i].is_group
            /\ \A i \in 1..Len(chat_rooms) :
                  username \in Members(chat_rooms[i]) =>
                     Cardinality({k \in 1..Len(rooms) :
                                     rooms[k].id = chat_rooms[i].id}) = 1
            /\ \A k \in 1..Len(rooms) : \A l \in 1..Len(rooms) :
                  k < l => rooms[k].created_at[2] <= rooms[l].created_at[2]

\* the list of a user in two rooms that were created at different times
C23_Witness ==
    /\ chatRet.op = "get_user_rooms"
    /\ chatRet.given[1] = "usuario1"
    /\ Len(chatRet.given[2]) = 2
    /\ chatRet.given[2][1].id = GeneralId
    /\ chatRet.given[2][1].created_at[2] < chatRet.given[2][2].created_at[2]

(***************************************************************************)
(* Properties of the key encapsulation and of the cipher.                  *)
(***************************************************************************)
\* C24: for a key pair generate_keypair produced, encapsulate with its
\* public key returns a shared secret and a ciphertext, and decapsulate of
\* that ciphertext with its secret key returns that shared secret.
C24_KemRoundTrip ==
    /\ (/\ cryptoRet.op = "encapsulate"
        /\ cryptoRet.arg = NoArg => keypair # 0)
          => cryptoRet.ok
    /\ (/\ cryptoRet.op = "decapsulate"
        /\ cryptoRet.ciphertext.k =
              (IF cryptoRet.secret_key = NoArg THEN keypair
               ELSE cryptoRet.secret_key.k))
          => (cryptoRet.ok /\ cryptoRet.secret = cryptoRet.shared)

\* C25: decrypt returns the plaintext m of an encrypt call exactly when it
\* is given the nonce and ciphertext that call returned, unmodified, with
\* the same associated data and on the cipher of the same key; with a bit
\* of the ciphertext or of the tag flipped (or another nonce, other
\* associated data, another key) it raises the authentication failure and
\* returns no plaintext.
C25_DecryptAuthenticates ==
    cryptoRet.op = "decrypt" =>
        LET Unmodified == /\ cryptoRet.tamper[1] = "none"
                          /\ cryptoRet.cipher =
                                sealed[cryptoRet.entry].cipher
        IN
        /\ Unmodified => (/\ cryptoRet.ok
                          /\ cryptoRet.plaintext =
                                sealed[cryptoRet.entry].plaintext)
        /\ ~Unmodified => (/\ ~cryptoRet.ok
                           /\ cryptoRet.error = "ValueError"
                           /\ cryptoRet.plaintext = 0)

\* a decrypt that returned the plaintext of the second encrypt call
C25_Witness ==
    /\ cryptoRet.op = "decrypt"
    /\ cryptoRet.ok
    /\ cryptoRet.entry = 2
    /\ cryptoRet.plaintext = 2
    /\ sealed[1].plaintext = 1

\* C26: no two encrypt calls on the same cipher (the same key) used the same
\* nonce.
C26_NonceNeverRepeats ==
    \A i \in 1..Len(sealed) : \A j \in 1..Len(sealed) :
        (i # j /\ sealed[i].cipher = sealed[j].cipher)
            => sealed[i].nonce # sealed[j].nonce

\* two encrypt calls on one cipher, of the same plaintext and data
C26_Witness ==
    /\ Len(sealed) = 2
    /\ sealed[1].cipher = sealed[2].cipher
    /\ sealed[1].plaintext = sealed[2].plaintext
    /\ sealed[1].aad = sealed[2].aad

(***************************************************************************)
(* Properties of the telemetry task.                                       *)
(***************************************************************************)
\* C27: in no state is a telemetry task still running while the address or
\* the cipher of the manager is already cleared: _cleanup clears them only
\* after the task it cancelled has finished.
C27_TaskJoinedBeforeRelease ==
    \A t \in LiveTasks : vpn_ip # NoIp /\ aes # NoKey

\* disconnect call h is suspended in _cleanup, in `await self.status_task`
\* or scheduled to resume from it
DisconnectSuspended(h) ==
    \/ \E i \in 1..Len(ready) :
          /\ ready[i].kind = "resume"
          /\ ready[i].id = h
          /\ ready[i].arg = "disconnected"
    \/ \E t \in 1..Len(waiters) : \E i \in 1..Len(waiters[t]) :
          /\ waiters[t][i].id = h
          /\ waiters[t][i].arg = "disconnected"

\* C28: a disconnect that found the manager connected and cancelled the
\* telemetry task eventually returns, with the manager DISCONNECTED when it
\* does, and every telemetry task whose cancellation was requested
\* eventually finishes.
C28_DisconnectTerminates ==
    /\ \A h \in 1..MaxCalls :
          DisconnectSuspended(h)
             ~> (ret.id = h /\ ret.op = "disconnect" /\ Disconnected)
    /\ \A t \in 1..MaxCalls :
          (t <= Len(tasks) /\ Live(t) /\ tasks[t].cancel)
             ~> (t <= Len(tasks) /\ ~Live(t))

\* a disconnect returned after it had waited for a task that had ticked
C28_Witness ==
    /\ ret.op = "disconnect"
    /\ ret.kind = "disconnected"
    /\ Disconnected
    /\ Len(tasks) > 0
    /\ LiveTasks = {}
    /\ Suspended = {}

\* C29: an exception in one pass of the telemetry loop does not end the
\* task: no telemetry task has returned through its exception handler.
C29_TickErrorDoesNotEndTask ==
    \A t \in 1..Len(tasks) : tasks[t].st # "failed"

\* C30: every pass of the telemetry loop of a connected manager leaves
\* bytes_sent and bytes_received larger than they were, no step between
\* two states of a connection makes them smaller, and while the manager is
\* connected the latency is between max(1, baseline - 10) and baseline + 10
\* of its server.
C30_CountersGrowLatencyBounded ==
    /\ [][(/\ connected
           /\ \E t \in 1..Len(tasks) :
                 tasks[t].st # "sleep" /\ tasks'[t].st = "sleep")
          => (/\ bytes_sent' > bytes_sent
              /\ bytes_received' > bytes_received)]_vars
    /\ [][(connected /\ connected')
          => (/\ bytes_sent' >= bytes_sent
              /\ bytes_received' >= bytes_received)]_vars
    /\ [](connected =>
             /\ latency >= (IF ServerLatency(server) - 10 < 1 THEN 1
                            ELSE ServerLatency(server) - 10)
             /\ latency <= ServerLatency(server) + 10)

\* a connection after two passes of its telemetry loop
C30_Witness ==
    /\ connected
    /\ server = "server2"
    /\ bytes_sent = 2048
    /\ bytes_received = 4096
    /\ latency = 45

(***************************************************************************)
(* Properties of the handshake keys and of the traffic counters.           *)
(***************************************************************************)
\* C31: when a connect has returned success, and when a disconnect has
\* returned, the KyberManager of the manager holds no key pair.
C31_KeypairDestroyedAfterHandshake ==
    [][((Returns("connect") /\ ret'.success) \/ Returns("disconnect"))
       => ~kyber_keypair']_vars

\* C40: in every state bytes_received is twice bytes_sent.
C40_ReceivedIsTwiceSent ==
    bytes_received = 2 * bytes_sent

\* a second connection, after a pass of each size of its telemetry loop
C40_Witness ==
    /\ connected
    /\ Len(tasks) = 2
    /\ bytes_sent = 1024 + 8192
    /\ bytes_received = 2 * bytes_sent

(***************************************************************************)
(* Properties of the session records.                                      *)
(***************************************************************************)
\* C32: vpn_sessions binds every address to the user of the latest
\* successful authentication from that address and binds no other address,
\* and the User record of every user that authenticated holds the address
\* of that user's latest successful authentication.  The tokens issued, in
\* their order, are the successful authentications.
C32_AddressRebinding ==
    LET Latest(S) == CHOOSE k \in S : \A m \in S : m <= k
        FromIp(ip) == {k \in 1..Len(issued) : issued[k].payload.vpn_ip = ip}
        OfUser(u) == {k \in 1..Len(issued) : issued[k].payload.sub = u}
    IN
    /\ DOMAIN vpn_sessions =
          {issued[k].payload.vpn_ip : k \in 1..Len(issued)}
    /\ \A ip \in DOMAIN vpn_sessions :
          vpn_sessions[ip] = issued[Latest(FromIp(ip))].payload.sub
    /\ DOMAIN connected_users =
          {issued[k].payload.sub : k \in 1..Len(issued)}
    /\ \A u \in DOMAIN connected_users :
          connected_users[u].vpn_ip =
              issued[Latest(OfUser(u))].payload.vpn_ip

\* a user authenticated from 10.8.0.1 and then another user from the same
\* address
C32_Witness ==
    /\ Len(issued) = 2
    /\ issued[1].payload.vpn_ip = NetBase + 1
    /\ issued[2].payload.vpn_ip = NetBase + 1
    /\ issued[1].payload.sub = "usuario1"
    /\ issued[2].payload.sub = "ana"
    /\ vpn_sessions[NetBase + 1] = "ana"
    /\ connected_users["usuario1"].vpn_ip = NetBase + 1

\* C33: no step removes a room, puts another room in the place of a stored
\* one, or takes a user out of the participants of a room.
C33_RoomsAddOnly ==
    [][/\ Len(chat_rooms') >= Len(chat_rooms)
       /\ \A i \in 1..Len(chat_rooms) :
             /\ chat_rooms'[i].id = chat_rooms[i].id
             /\ chat_rooms'[i].is_group = chat_rooms[i].is_group
             /\ chat_rooms'[i].created_at = chat_rooms[i].created_at
             /\ Members(chat_rooms[i]) \subseteq Members(chat_rooms'[i])]_vars

\* a message was created in a private room after a new user had joined
\* "general"
C33_Witness ==
    /\ Len(chat_rooms) = 2
    /\ ~chat_rooms[2].is_group
    /\ "ana" \in Members(chat_rooms[1])
    /\ DemoUsers[1] \in Members(chat_rooms[1])
    /\ chatRet.op = "create_message"
    /\ chatRet.success
    /\ chatRet.message.room_id = chat_rooms[2].id

(***************************************************************************)
(* Properties of the WebSocket connections.                                *)
(***************************************************************************)
\* C34: the step that accepts a connection leaves its user marked online,
\* and every step in which the handler of a connection ends leaves the
\* session of the connection out of active_connections and its user marked
\* offline.
C34_PresenceFollowsConnections ==
    /\ [][Len(sockets') > Len(sockets)
          => connected_users'[sockets'[Len(sockets')].username].is_online]_vars
    /\ [][\A w \in 1..Len(sockets) :
            (sockets[w].pc # "closed" /\ sockets'[w].pc = "closed")
            => /\ sockets[w].session_id \notin DOMAIN active_connections'
               /\ ~connected_users'[sockets[w].username].is_online]_vars

C36_AuthenticateDoesNotAbortBroadcast ==
    [][\A w \in 1..Len(sockets) :
          (/\ sockets[w].pc = "bcast"
           /\ sockets[w].b.n # -1
           /\ sockets[w].b.n # Len(user_sessions)
           /\ sockets'[w] # sockets[w])
          => /\ sockets'[w].pc # "closed"
             /\ sockets[w].session_id \in DOMAIN active_connections
                   => sockets[w].session_id \in DOMAIN active_connections']_vars

\* connection w is the one stored in active_connections under its session
Registered(conns, w) ==
    /\ sockets[w].session_id \in DOMAIN conns
    /\ conns[sockets[w].session_id] = w

\* C37: every accepted connection whose handler has not ended is the one
\* stored in active_connections under its session id, and a step in which
\* the handler of one connection ends leaves every other stored connection
\* stored.
C37_RegisteredUntilOwnHandlerEnds ==
    /\ [](\A w \in 1..Len(sockets) :
             sockets[w].pc # "closed" => Registered(active_connections, w))
    /\ [][\A w, x \in 1..Len(sockets) :
            (/\ sockets[w].pc # "closed"
             /\ sockets'[w].pc = "closed"
             /\ x # w
             /\ sockets'[x].pc # "closed"
             /\ Registered(active_connections, x))
            => Registered(active_connections', x)]_vars

\* C38: every frame broadcast into a room, a typing notification or a
\* message, that a connection was sent comes from a participant of the
\* room.
C38_OnlyParticipantsBroadcast ==
    \A x \in 1..Len(sockets) : \A k \in 1..Len(sockets[x].inbox) :
       LET f == sockets[x].inbox[k] IN
       f.type = "new_message"
          => InList(f.message.sender, Participants(f.message.room_id))

\* C39: no connection of a session other than the sender's is sent the
\* new_message frame of one message twice, and when the broadcast of a
\* message returns every eligible connection has the frame.
C39_OneFramePerMessage ==
    /\ [](\A x \in 1..Len(sockets) :
             \A k1, k2 \in 1..Len(sockets[x].inbox) :
                (/\ sockets[x].inbox[k1].type = "new_message"
                 /\ sockets[x].inbox[k1].message.kind = "message"
                 /\ sockets[x].inbox[k1] = sockets[x].inbox[k2]
                 /\ \A v \in 1..Len(sockets) :
                       HasFrame(sockets, v, "message_sent",
                                sockets[x].inbox[k1].message)
                          => sockets[v].session_id # sockets[x].session_id)
                => k1 = k2)
    /\ [][\A w \in 1..Len(sockets) :
            (/\ sockets[w].pc = "bcast"
             /\ sockets'[w].pc = "recv"
             /\ sockets[w].b.message.kind = "message")
            => \A x \in 1..Len(sockets) :
                  EligibleSink(sockets, active_connections, w, x)
                     => HasFrame(sockets', x, "new_message",
                                 sockets[w].b.message)]_vars
====
